---- MODULE Spec2Model ----
(***************************************************************************)
(* Quantio: the calculator session of js/components/calculator.js (the     *)
(* three module-level variables currentInput, expression, shouldResetInput *)
(* and the handlers that mutate them), modelled as a state machine.        *)
(*                                                                         *)
(* Texts are sequences of one-character strings, so that slice, includes,  *)
(* startsWith, split and template concatenation are modelled by what they  *)
(* do to the characters.  JavaScript numbers are modelled as exact         *)
(* rationals num/den over decimal digit sequences of arbitrary length      *)
(* (plus NaN): parseFloat reads the longest numeric prefix of a text,      *)
(* Number.prototype.toString writes the ECMAScript canonical form, and     *)
(* Math.round(x * 1e9) / 1e9 is floor(x * 1e9 + 1/2) / 1e9.  Within the    *)
(* bounds below every value has fewer than 16 significant digits, where    *)
(* the 9-decimal rounding of calculate() absorbs the binary rounding       *)
(* noise of IEEE-754 doubles.                                              *)
(*                                                                         *)
(* convertValue of js/components/converter.js has no such rounding, so its *)
(* numbers are modelled as IEEE-754 doubles proper: a sign, a 53-bit       *)
(* mantissa and a binary exponent, every operation rounded to the nearest  *)
(* double, ties to even.  The converter's form (the input and output      *)
(* fields, the two unit selectors and currentCategory) is a second state   *)
(* machine over the same doubles, one step per event of its listeners.     *)
(*                                                                         *)
(* The theme of js/components/theme-toggle.js (the current theme and       *)
(* contrast with their copies in localStorage) and the active classes of   *)
(* js/components/tabs.js are two further small state machines.             *)
(***************************************************************************)
EXTENDS Integers, Sequences, FiniteSets, TLC

VARIABLES
    currentInput,       \* let currentInput: the text of the result display
    expression,         \* let expression: "" or "<first operand> <operator>"
    shouldResetInput,   \* let shouldResetInput
    displayCapacity,    \* the environment: characters the display can hold
    lastCall,           \* history: the last UI event and the value it dispatched
    prev,               \* history: the session before the last UI event
    events,             \* history: the number of UI events so far
    script,             \* the button values a scripted run presses, in order
    args,               \* the arguments of a direct call of an exported function
    returned,           \* what that call returned
    inputValue,         \* inputValue.value: the text of the converter's input field
    outputValue,        \* outputValue.value: the text of its output field
    inputUnit,          \* inputUnit.value: the index of the source unit
    outputUnit,         \* outputUnit.value: the index of the target unit
    currentCategory,    \* let currentCategory
    currentTheme,       \* let currentTheme: the theme applied to the page
    currentContrast,    \* let currentContrast
    storedTheme,        \* localStorage.getItem('quantio-theme'), "null" if absent
    storedContrast,     \* localStorage.getItem('quantio-contrast')
    systemDark,         \* matchMedia('(prefers-color-scheme: dark)').matches
    toggled,            \* history: the theme toggle has been clicked
    tabItems,           \* the .tabs__item elements: their data-tab, in order
    tabPanels,          \* the .tabs__panel elements: their id, in order
    activeItems,        \* positions of the tab items of class tabs__item--active
    activePanels        \* positions of the panels of class tabs__panel--active

\* The converter's part of the state.
converterVars == <<inputValue, outputValue, inputUnit, outputUnit, currentCategory>>

\* The theme toggle's part of the state, and that of the tabs.
themeVars == <<currentTheme, currentContrast, storedTheme, storedContrast, systemDark,
               toggled>>

tabVars == <<tabItems, tabPanels, activeItems, activePanels>>

chromeVars == <<themeVars, tabVars>>

vars == <<currentInput, expression, shouldResetInput, displayCapacity,
          lastCall, prev, events, script, args, returned, converterVars, chromeVars>>

(***************************************************************************)
(* Bounds of the model.                                                    *)
(***************************************************************************)
\* Number of UI events explored from the initial state.
MaxEvents == 5
\* Largest display capacity (in characters) the environment may have.
MaxCapacity == 8
\* A scripted run of digit presses: a free prefix of at most MaxFree digits,
\* followed by at most MaxRepeat presses of one digit.
MaxFree == 3
MaxRepeat == 6
\* A scripted run of unary operations: one operand, then at most MaxUnary
\* presses of the sign-toggle and percentage buttons.
MaxUnary == 5
\* Direct calls of evaluateOperation: operands n/d with |n| <= MaxOperand.
MaxOperand == 3
\* Direct calls of convertValue: unit indexes from -1 to MaxIndex.
MaxIndex == 12
\* Direct calls of limitOutputSize: the digits 123456789 with the decimal
\* point moved left by at most MaxShift places.
MaxShift == 16
\* Runs of the converter: at most MaxEdits events of its form controls, the
\* unit selectors set to indexes up to MaxUnit.
MaxEdits == 2
MaxUnit == 3
\* Narrow layouts: displays that hold at most MaxNarrow characters.
MaxNarrow == 2
\* Runs of the theme toggle and of the tabs: at most MaxClicks events.
MaxClicks == 4

(***************************************************************************)
(* Program constants.                                                      *)
(***************************************************************************)
\* Number of characters that are shown at the maximum font size.
CHARS_AT_MAX_SIZE == 8

(***************************************************************************)
(* Texts                                                                   *)
(***************************************************************************)
DigitChars == <<"0", "1", "2", "3", "4", "5", "6", "7", "8", "9">>

IsDigitChar(c) == \E i \in 1..10 : DigitChars[i] = c

DigitVal(c) == (CHOOSE i \in 1..10 : DigitChars[i] = c) - 1

ErrorText == <<"E", "r", "r", "o", "r">>

NaNText == <<"N", "a", "N">>

Front(s) == IF s = <<>> THEN <<>> ELSE SubSeq(s, 1, Len(s) - 1)

Last(s) == s[Len(s)]

\* String.prototype.includes for a one-character needle.
Includes(s, c) == \E i \in 1..Len(s) : s[i] = c

\* String.prototype.startsWith for a one-character prefix.
StartsWith(s, c) == s # <<>> /\ s[1] = c

\* String.prototype.slice(1)
Slice1(s) == IF s = <<>> THEN <<>> ELSE Tail(s)

\* String.prototype.slice(0, -1)
SliceDropLast(s) == Front(s)

RECURSIVE Split(_, _)
\* String.prototype.split(sep): the parts of s between occurrences of sep.
Split(s, sep) ==
    IF \A i \in 1..Len(s) : s[i] # sep
    THEN <<s>>
    ELSE LET i == CHOOSE j \in 1..Len(s) :
                      s[j] = sep /\ \A k \in 1..(j - 1) : s[k] # sep
         IN  <<SubSeq(s, 1, i - 1)>> \o Split(SubSeq(s, i + 1, Len(s)), sep)

(***************************************************************************)
(* Natural numbers of arbitrary size: decimal digit sequences, most        *)
(* significant digit first, without leading zeros (<<>> is zero).          *)
(***************************************************************************)
Zeros(k) == [i \in 1..k |-> 0]

Pow10(k) == <<1>> \o Zeros(k)

RECURSIVE Strip(_)
Strip(ds) == IF ds = <<>> THEN <<>>
             ELSE IF Head(ds) = 0 THEN Strip(Tail(ds)) ELSE ds

RECURSIVE CmpLex(_, _)
CmpLex(a, b) == IF a = <<>> THEN 0
                ELSE IF Head(a) < Head(b) THEN -1
                ELSE IF Head(a) > Head(b) THEN 1
                ELSE CmpLex(Tail(a), Tail(b))

\* -1, 0 or 1 as a < b, a = b, a > b.
CmpMag(a, b) == IF Len(a) < Len(b) THEN -1
                ELSE IF Len(a) > Len(b) THEN 1
                ELSE CmpLex(a, b)

RECURSIVE AddCarry(_, _, _)
AddCarry(a, b, c) ==
    IF a = <<>> /\ b = <<>>
    THEN IF c = 0 THEN <<>> ELSE <<c>>
    ELSE LET da == IF a = <<>> THEN 0 ELSE Last(a)
             db == IF b = <<>> THEN 0 ELSE Last(b)
             s  == da + db + c
         IN  Append(AddCarry(Front(a), Front(b), s \div 10), s % 10)

AddMag(a, b) == Strip(AddCarry(a, b, 0))

RECURSIVE SubBorrow(_, _, _)
SubBorrow(a, b, c) ==
    IF a = <<>> THEN <<>>
    ELSE LET db == IF b = <<>> THEN 0 ELSE Last(b)
             d  == Last(a) - db - c
         IN  Append(SubBorrow(Front(a), Front(b), IF d < 0 THEN 1 ELSE 0),
                    IF d < 0 THEN d + 10 ELSE d)

\* a - b for a >= b.
SubMag(a, b) == Strip(SubBorrow(a, b, 0))

RECURSIVE MulCarry(_, _, _)
MulCarry(a, d, c) ==
    IF a = <<>>
    THEN IF c = 0 THEN <<>> ELSE <<c>>
    ELSE LET p == Last(a) * d + c
         IN  Append(MulCarry(Front(a), d, p \div 10), p % 10)

MulDigit(a, d) == Strip(MulCarry(a, d, 0))

RECURSIVE MulMag(_, _)
MulMag(a, b) ==
    IF b = <<>> THEN <<>>
    ELSE AddMag(Strip(Append(MulMag(a, Front(b)), 0)), MulDigit(a, Last(b)))

\* The largest digit j with b * j <= r (0 <= r < 10 * b).
QuotDigit(r, b) ==
    CHOOSE j \in 0..9 :
        /\ CmpMag(MulDigit(b, j), r) <= 0
        /\ (j = 9 \/ CmpMag(MulDigit(b, j + 1), r) > 0)

\* One step of the long division by b: the quotient q so far, the running
\* remainder r with the next digit of the dividend brought down, and the
\* next quotient digit j.
DivDigit(q, r, b, j) ==
    [q |-> Strip(Append(q, j)), r |-> SubMag(r, MulDigit(b, j))]

DivStep(p, d, b) ==
    DivDigit(p.q, Strip(Append(p.r, d)), b, QuotDigit(Strip(Append(p.r, d)), b))

RECURSIVE DivMag(_, _)
\* Quotient q and remainder r of a by b (b # 0), by long division.
DivMag(a, b) ==
    IF Len(a) < Len(b) THEN [q |-> <<>>, r |-> a]
    ELSE DivStep(DivMag(Front(a), b), Last(a), b)

RECURSIVE NatOf(_)
\* The value of a short digit sequence as an integer.
NatOf(ds) == IF ds = <<>> THEN 0 ELSE NatOf(Front(ds)) * 10 + Last(ds)

RECURSIVE DigitsOf(_)
\* The digits of a natural number.
DigitsOf(n) == IF n = 0 THEN <<>> ELSE Append(DigitsOf(n \div 10), n % 10)

(***************************************************************************)
(* JavaScript numbers: NaN, or the exact rational (-1)^neg * num / den.    *)
(***************************************************************************)
NaN == [nan |-> TRUE, neg |-> FALSE, num |-> <<>>, den |-> <<1>>]

Num(neg, num, den) ==
    [nan |-> FALSE, neg |-> neg /\ num # <<>>, num |-> num, den |-> den]

IsZero(x) == ~x.nan /\ x.num = <<>>

\* The sum of (-1)^xneg * x / d and (-1)^yneg * y / d.
SignedSum(xneg, x, yneg, y, d) ==
    IF xneg = yneg THEN Num(xneg, AddMag(x, y), d)
    ELSE IF CmpMag(x, y) >= 0 THEN Num(xneg, SubMag(x, y), d)
    ELSE Num(yneg, SubMag(y, x), d)

\* a + b
NumAdd(a, b) ==
    IF a.nan \/ b.nan THEN NaN
    ELSE SignedSum(a.neg, MulMag(a.num, b.den), b.neg, MulMag(b.num, a.den),
                   MulMag(a.den, b.den))

\* -a
NumNeg(a) == IF a.nan THEN NaN ELSE Num(~a.neg, a.num, a.den)

\* a - b
NumSub(a, b) == NumAdd(a, NumNeg(b))

\* a * b
NumMul(a, b) ==
    IF a.nan \/ b.nan THEN NaN
    ELSE Num(a.neg # b.neg, MulMag(a.num, b.num), MulMag(a.den, b.den))

\* a / b for b # 0
NumDiv(a, b) ==
    IF a.nan \/ b.nan THEN NaN
    ELSE Num(a.neg # b.neg, MulMag(a.num, b.den), MulMag(a.den, b.num))

\* floor(y + 1/2) for |y| = q + (last digit of d.q)/10 + (a rest that is
\* zero iff d.r is), over 10^9: a tie rounds towards +Infinity.
RoundQuotient(neg, d) ==
    Num(neg,
        IF d.q # <<>> /\ (IF neg THEN Last(d.q) > 5 \/ (Last(d.q) = 5 /\ d.r # <<>>)
                                 ELSE Last(d.q) >= 5)
        THEN AddMag(Front(d.q), <<1>>)
        ELSE Front(d.q),
        Pow10(9))

\* Math.round(x * 1000000000) / 1000000000
Round9(x) ==
    IF x.nan THEN NaN
    ELSE RoundQuotient(x.neg, DivMag(Strip(x.num \o Zeros(10)), x.den))

(***************************************************************************)
(* Natural numbers in base 10000 (limbs, most significant first, <<>> is   *)
(* zero): the 53-bit mantissas of doubles and their products.              *)
(***************************************************************************)
Base == 10000

RECURSIVE LAddCarry(_, _, _)
LAddCarry(a, b, c) ==
    IF a = <<>> /\ b = <<>>
    THEN IF c = 0 THEN <<>> ELSE <<c>>
    ELSE Append(LAddCarry(Front(a), Front(b),
                          ((IF a = <<>> THEN 0 ELSE Last(a))
                           + (IF b = <<>> THEN 0 ELSE Last(b)) + c) \div Base),
                ((IF a = <<>> THEN 0 ELSE Last(a))
                 + (IF b = <<>> THEN 0 ELSE Last(b)) + c) % Base)

LAdd(a, b) == Strip(LAddCarry(a, b, 0))

RECURSIVE LSubBorrow(_, _, _)
LSubBorrow(a, b, c) ==
    IF a = <<>> THEN <<>>
    ELSE Append(LSubBorrow(Front(a), Front(b),
                           IF Last(a) - (IF b = <<>> THEN 0 ELSE Last(b)) - c < 0
                           THEN 1 ELSE 0),
                (Last(a) - (IF b = <<>> THEN 0 ELSE Last(b)) - c + Base) % Base)

\* a - b for a >= b.
LSub(a, b) == Strip(LSubBorrow(a, b, 0))

RECURSIVE LMulCarry(_, _, _)
LMulCarry(a, k, c) ==
    IF a = <<>>
    THEN IF c = 0 THEN <<>> ELSE <<c>>
    ELSE Append(LMulCarry(Front(a), k, (Last(a) * k + c) \div Base),
                (Last(a) * k + c) % Base)

\* a * k for 0 <= k < 10000.
LMulSmall(a, k) == Strip(LMulCarry(a, k, 0))

RECURSIVE LMul(_, _)
LMul(a, b) ==
    IF b = <<>> THEN <<>>
    ELSE LAdd(Strip(Append(LMul(a, Front(b)), 0)), LMulSmall(a, Last(b)))

\* b * q <= r
Fits(r, b, q) == CmpMag(LMulSmall(b, q), r) <= 0

RECURSIVE Largest(_, _, _, _, _, _)
\* The largest j in lo..hi with b * (from + step * j) <= r, by bisection
\* (j = lo is known to do).
Largest(r, b, from, step, lo, hi) ==
    IF lo = hi THEN lo
    ELSE IF Fits(r, b, from + step * ((lo + hi + 1) \div 2))
         THEN Largest(r, b, from, step, (lo + hi + 1) \div 2, hi)
         ELSE Largest(r, b, from, step, lo, (lo + hi + 1) \div 2 - 1)

BestDigit(r, b, from, step) == Largest(r, b, from, step, 0, 9)

QuotFrom(r, b, from, step) == from + step * BestDigit(r, b, from, step)

RECURSIVE QuotDigits(_, _, _, _)
\* The decimal digits of the quotient from the one worth step on, from
\* being the part of it already found.
QuotDigits(r, b, from, step) ==
    IF step = 0 THEN from
    ELSE QuotDigits(r, b, QuotFrom(r, b, from, step), step \div 10)

\* The largest limb q with b * q <= r (0 <= r < 10000 * b), one decimal
\* digit of q at a time.
LQuot(r, b) == IF CmpMag(r, b) < 0 THEN 0 ELSE QuotDigits(r, b, 0, 1000)

LDivLimb(q, r, b, j) ==
    [q |-> Strip(Append(q, j)), r |-> LSub(r, LMulSmall(b, j))]

LDivStep(p, l, b) ==
    LDivLimb(p.q, Strip(Append(p.r, l)), b, LQuot(Strip(Append(p.r, l)), b))

RECURSIVE LDiv(_, _)
\* Quotient q and remainder r of a by b (b # 0), by long division.
LDiv(a, b) ==
    IF Len(a) < Len(b) THEN [q |-> <<>>, r |-> a]
    ELSE LDivStep(LDiv(Front(a), b), Last(a), b)

RECURSIVE LPow2(_)
LPow2(k) == IF k = 0 THEN <<1>>
            ELSE IF k >= 10 THEN LMulSmall(LPow2(k - 10), 1024)
            ELSE LMulSmall(LPow2(k - 1), 2)

\* The limbs of a decimal digit sequence.
Limbs(ds) ==
    [i \in 1..((Len(ds) + 3) \div 4) |->
        LET at(p) == IF p <= 0 THEN 0 ELSE ds[p]
            last  == Len(ds) - 4 * (((Len(ds) + 3) \div 4) - i)
        IN  at(last - 3) * 1000 + at(last - 2) * 100 + at(last - 1) * 10 + at(last)]

(***************************************************************************)
(* IEEE-754 doubles: NaN, zero, or (-1)^neg * m * 2^e with a mantissa      *)
(* 2^52 <= m < 2^53.  An arithmetic operator of JavaScript returns the     *)
(* double nearest to the exact result, a tie going to the even mantissa.   *)
(* (Infinities, subnormal numbers and the sign of zero are left out: they  *)
(* do not occur for the values of the model.)                              *)
(***************************************************************************)
TwoTo52 == <<4503, 5996, 2737, 496>>

TwoTo53 == <<9007, 1992, 5474, 992>>

DNaN == [nan |-> TRUE, neg |-> FALSE, m |-> <<>>, e |-> 0]

DZero == [nan |-> FALSE, neg |-> FALSE, m |-> <<>>, e |-> 0]

Double(neg, m, e) ==
    IF m = TwoTo53 THEN [nan |-> FALSE, neg |-> neg, m |-> TwoTo52, e |-> e + 1]
    ELSE [nan |-> FALSE, neg |-> neg, m |-> m, e |-> e]

RECURSIVE ScaleUp(_, _, _, _)
\* n is doubled (2^10 at a time while that stays below lo) until lo <= n
\* (lo = d * 2^52).
ScaleUp(n, d, lo, e) ==
    IF CmpMag(LMulSmall(n, 1024), lo) < 0
    THEN ScaleUp(LMulSmall(n, 1024), d, lo, e - 10)
    ELSE IF CmpMag(n, lo) < 0 THEN ScaleUp(LMulSmall(n, 2), d, lo, e - 1)
    ELSE [n |-> n, d |-> d, e |-> e]

RECURSIVE ScaleDown(_, _, _, _)
\* d is doubled (2^10 at a time while n allows) until n < hi
\* (hi = d * 2^53).
ScaleDown(n, d, hi, e) ==
    IF CmpMag(n, LMulSmall(hi, 1024)) >= 0
    THEN ScaleDown(n, LMulSmall(d, 1024), LMulSmall(hi, 1024), e + 10)
    ELSE IF CmpMag(n, hi) >= 0
    THEN ScaleDown(n, LMulSmall(d, 2), LMulSmall(hi, 2), e + 1)
    ELSE [n |-> n, d |-> d, e |-> e]

\* n / d scaled by a power of two into [2^52, 2^53): the scaled n and d,
\* and the exponent e with  n0 / d0 = (n / d) * 2^e.
Scale(n, d) ==
    IF CmpMag(n, LMul(d, TwoTo53)) >= 0
    THEN ScaleDown(n, d, LMul(d, TwoTo53), 0)
    ELSE ScaleUp(n, d, LMul(d, TwoTo52), 0)

\* The integer nearest to q + r / d, a tie going to the even one.
NearestEven(p, d) ==
    IF \/ CmpMag(LMulSmall(p.r, 2), d) > 0
       \/ (CmpMag(LMulSmall(p.r, 2), d) = 0 /\ Last(p.q) % 2 = 1)
    THEN LAdd(p.q, <<1>>)
    ELSE p.q

Rounded(neg, w, e) == Double(neg, NearestEven(LDiv(w.n, w.d), w.d), w.e + e)

\* The double nearest to (-1)^neg * (n / d) * 2^e.
RoundRatio(neg, n, d, e) ==
    IF n = <<>> THEN DZero ELSE Rounded(neg, Scale(n, d), e)

\* The double written as the decimal literal  ds * 10^(-k).
Literal(ds, k) == RoundRatio(FALSE, Limbs(ds), Limbs(Pow10(k)), 0)

\* The double of a JavaScript number of the calculator's kind.
ToDouble(x) ==
    IF x.nan THEN DNaN ELSE RoundRatio(x.neg, Limbs(x.num), Limbs(x.den), 0)

\* -a
FNeg(a) == IF a.nan \/ a.m = <<>> THEN a ELSE [a EXCEPT !.neg = ~a.neg]

\* a * b
FMul(a, b) ==
    IF a.nan \/ b.nan THEN DNaN
    ELSE RoundRatio(a.neg # b.neg, LMul(a.m, b.m), <<1>>, a.e + b.e)

\* a / b (b # 0)
FDiv(a, b) ==
    IF a.nan \/ b.nan \/ b.m = <<>> THEN DNaN
    ELSE RoundRatio(a.neg # b.neg, a.m, b.m, a.e - b.e)

\* The sum of (-1)^xneg * x * 2^e and (-1)^yneg * y * 2^e.
SignedSumDouble(xneg, x, yneg, y, e) ==
    IF xneg = yneg THEN RoundRatio(xneg, LAdd(x, y), <<1>>, e)
    ELSE IF CmpMag(x, y) >= 0 THEN RoundRatio(xneg, LSub(x, y), <<1>>, e)
    ELSE RoundRatio(yneg, LSub(y, x), <<1>>, e)

\* a + b
FAdd(a, b) ==
    IF a.nan \/ b.nan THEN DNaN
    ELSE IF a.m = <<>> THEN b
    ELSE IF b.m = <<>> THEN a
    ELSE IF a.e >= b.e
    THEN SignedSumDouble(a.neg, LMul(a.m, LPow2(a.e - b.e)), b.neg, b.m, b.e)
    ELSE SignedSumDouble(a.neg, a.m, b.neg, LMul(b.m, LPow2(b.e - a.e)), a.e)

\* a - b
FSub(a, b) == FAdd(a, FNeg(b))

\* The integer part of |a| + 1/2 (pos) or the least integer that is at
\* least |a| - 1/2 (~pos), for a double a that is no integer (a.e < 0).
HalfUp(a, pos) ==
    IF a.e < -54 THEN <<>>
    ELSE IF pos
    THEN LDiv(LAdd(LMulSmall(a.m, 2), LPow2(-a.e)), LPow2(1 - a.e)).q
    ELSE IF CmpMag(LMulSmall(a.m, 2), LPow2(-a.e)) <= 0 THEN <<>>
    ELSE LDiv(LAdd(LSub(LMulSmall(a.m, 2), LPow2(-a.e)),
                   LSub(LPow2(1 - a.e), <<1>>)),
              LPow2(1 - a.e)).q

\* Math.round(a): the integer nearest to a, a tie going to the larger one.
MathRound(a) ==
    IF a.nan \/ a.m = <<>> \/ a.e >= 0 THEN a
    ELSE RoundRatio(a.neg, HalfUp(a, ~a.neg), <<1>>, 0)

\* Math.round(a * 1000000000) / 1000000000
RoundToBillionths(a) ==
    FDiv(MathRound(FMul(a, Literal(<<1, 0, 0, 0, 0, 0, 0, 0, 0, 0>>, 0))),
         Literal(<<1, 0, 0, 0, 0, 0, 0, 0, 0, 0>>, 0))

\* The number of leading decimal digit characters of a text.
DigitPrefixLen(s) ==
    CHOOSE n \in 0..Len(s) :
        /\ \A i \in 1..n : IsDigitChar(s[i])
        /\ (n = Len(s) \/ ~IsDigitChar(s[n + 1]))

DigitsOfText(s) == [i \in 1..Len(s) |-> DigitVal(s[i])]

TextOfDigits(ds) == [i \in 1..Len(ds) |-> DigitChars[ds[i] + 1]]

\* The leading decimal digit characters of a text, and the rest of it.
DigitPrefix(s) == SubSeq(s, 1, DigitPrefixLen(s))

AfterDigits(s) == SubSeq(s, DigitPrefixLen(s) + 1, Len(s))

\* (-1)^neg * m / 10^scale
Scaled(neg, m, scale) ==
    IF scale >= 0 THEN Num(neg, m, Pow10(scale))
    ELSE Num(neg, Strip(m \o Zeros(-scale)), <<1>>)

\* The exponent an exponent part  e [+-] digits  denotes: 0 when r does not
\* start with one.
ExponentDigits(t) == NatOf(DigitsOfText(DigitPrefix(t)))

ExponentOf(r) ==
    IF ~(StartsWith(r, "e") \/ StartsWith(r, "E")) THEN 0
    ELSE IF StartsWith(Tail(r), "-") THEN -ExponentDigits(Tail(Tail(r)))
    ELSE IF StartsWith(Tail(r), "+") THEN ExponentDigits(Tail(Tail(r)))
    ELSE ExponentDigits(Tail(r))

\* The value of the mantissa digits int . frac followed by the text r.
ParseExponent(neg, int, frac, r) ==
    IF Len(int) + Len(frac) = 0 THEN NaN
    ELSE Scaled(neg, Strip(DigitsOfText(int \o frac)), Len(frac) - ExponentOf(r))

\* The value of the integer digits int followed by the text r.
ParseFraction(neg, int, r) ==
    IF StartsWith(r, ".")
    THEN ParseExponent(neg, int, DigitPrefix(Tail(r)), AfterDigits(Tail(r)))
    ELSE ParseExponent(neg, int, <<>>, r)

\* parseFloat(text): the value of the longest prefix of text that is a
\* decimal literal  [+-] digits [. digits] [e [+-] digits]  (with at least
\* one mantissa digit), NaN when there is no such prefix.
parseFloat(s) ==
    IF StartsWith(s, "-") \/ StartsWith(s, "+")
    THEN ParseFraction(StartsWith(s, "-"), DigitPrefix(Tail(s)), AfterDigits(Tail(s)))
    ELSE ParseFraction(FALSE, DigitPrefix(s), AfterDigits(s))

RECURSIVE StripTrailing(_)
StripTrailing(ds) == IF ds = <<>> THEN <<>>
                     ELSE IF Last(ds) = 0 THEN StripTrailing(Front(ds)) ELSE ds

\* The exponent part of the exponential form: e+N or e-N.
ExponentText(e) ==
    IF e < 0 THEN <<"e", "-">> \o TextOfDigits(DigitsOf(-e))
    ELSE <<"e", "+">> \o TextOfDigits(DigitsOf(e))

\* The text of the value 0.d1...dk * 10^n, for its significant digits dc:
\* an integer for k <= n <= 21, a fixed form for 0 < n <= 21 and for
\* -6 < n <= 0, and otherwise the exponential form.
FormatDigits(dc, n) ==
    IF Len(dc) <= n /\ n <= 21
        THEN dc \o TextOfDigits(Zeros(n - Len(dc)))
    ELSE IF 0 < n /\ n <= 21
        THEN SubSeq(dc, 1, n) \o <<".">> \o SubSeq(dc, n + 1, Len(dc))
    ELSE IF -6 < n /\ n <= 0
        THEN <<"0", ".">> \o TextOfDigits(Zeros(-n)) \o dc
    ELSE IF Len(dc) = 1
        THEN dc \o ExponentText(n - 1)
    ELSE <<dc[1], ".">> \o SubSeq(dc, 2, Len(dc)) \o ExponentText(n - 1)

\* Number.prototype.toString() of a number whose denominator is a power of
\* ten (ECMAScript Number::toString, radix 10).
toString(x) ==
    IF x.nan THEN NaNText
    ELSE IF x.num = <<>> THEN <<"0">>
    ELSE IF x.neg
    THEN <<"-">> \o FormatDigits(TextOfDigits(StripTrailing(x.num)),
                                 Len(x.num) - (Len(x.den) - 1))
    ELSE FormatDigits(TextOfDigits(StripTrailing(x.num)),
                      Len(x.num) - (Len(x.den) - 1))

(***************************************************************************)
(* The calculator session and its handlers.  A session value is the record *)
(* of the three module-level variables; every handler is the function from *)
(* the session before the call to the session after it.                    *)
(***************************************************************************)
Session == [currentInput     |-> currentInput,
            expression       |-> expression,
            shouldResetInput |-> shouldResetInput]

\* let currentInput = "0"; let expression = ""; let shouldResetInput = false;
InitialSession == [currentInput     |-> <<"0">>,
                   expression       |-> <<>>,
                   shouldResetInput |-> FALSE]

\* canFitInDisplay(input): whether the text, laid out at the font size its
\* length selects, is at most MAX_DISPLAY_LINES lines high.  The layout is
\* the browser's; it is modelled by a capacity in characters that the
\* environment fixes when the page is laid out (displayCapacity).
canFitInDisplay(input) == Len(input) <= displayCapacity

\* inputNumber with the reset flag left set when a fresh operand starts.
MutInputNumberKeepsFlag(s, num) ==
    IF s.shouldResetInput
    THEN IF canFitInDisplay(<<num>>)
         THEN [s EXCEPT !.currentInput = <<num>>]
         ELSE s
    ELSE IF s.currentInput = <<"0">> /\ num # "."
    THEN IF canFitInDisplay(<<num>>)
         THEN [s EXCEPT !.currentInput = <<num>>]
         ELSE s
    ELSE IF num = "." /\ Includes(s.currentInput, ".")
    THEN s
    ELSE IF canFitInDisplay(s.currentInput \o <<num>>)
         THEN [s EXCEPT !.currentInput = s.currentInput \o <<num>>]
         ELSE s

\* inputNumber without the replacement of a lone "0".
MutInputNumberKeepsZero(s, num) ==
    IF s.shouldResetInput
    THEN IF canFitInDisplay(<<num>>)
         THEN [s EXCEPT !.currentInput = <<num>>, !.shouldResetInput = FALSE]
         ELSE [s EXCEPT !.shouldResetInput = FALSE]
    ELSE IF num = "." /\ Includes(s.currentInput, ".")
    THEN s
    ELSE IF canFitInDisplay(s.currentInput \o <<num>>)
         THEN [s EXCEPT !.currentInput = s.currentInput \o <<num>>]
         ELSE s

\* inputNumber without the duplicate-decimal guard.
MutInputNumberNoDecimalGuard(s, num) ==
    IF s.shouldResetInput
    THEN IF canFitInDisplay(<<num>>)
         THEN [s EXCEPT !.currentInput = <<num>>, !.shouldResetInput = FALSE]
         ELSE [s EXCEPT !.shouldResetInput = FALSE]
    ELSE IF s.currentInput = <<"0">> /\ num # "."
    THEN IF canFitInDisplay(<<num>>)
         THEN [s EXCEPT !.currentInput = <<num>>]
         ELSE s
    ELSE IF canFitInDisplay(s.currentInput \o <<num>>)
         THEN [s EXCEPT !.currentInput = s.currentInput \o <<num>>]
         ELSE s

\* inputNumber(num)
inputNumber(s, num) ==
    IF s.shouldResetInput
    THEN IF canFitInDisplay(<<num>>)
         THEN [s EXCEPT !.currentInput = <<num>>, !.shouldResetInput = FALSE]
         ELSE [s EXCEPT !.shouldResetInput = FALSE]
    ELSE IF s.currentInput = <<"0">> /\ num # "."
    THEN IF canFitInDisplay(<<num>>)
         THEN [s EXCEPT !.currentInput = <<num>>]
         ELSE s
    ELSE IF num = "." /\ Includes(s.currentInput, ".")
    THEN s
    ELSE IF canFitInDisplay(s.currentInput \o <<num>>)
         THEN [s EXCEPT !.currentInput = s.currentInput \o <<num>>]
         ELSE s

\* evaluateOperation without the zero check of the division: the quotient
\* by zero is a number that is not finite.
MutEvaluateNoZeroCheck(firstNum, operator, secondNum) ==
    CASE operator = <<"+">> -> [type |-> "number", num |-> NumAdd(firstNum, secondNum),
                                str |-> <<>>]
      [] operator = <<"-">> -> [type |-> "number", num |-> NumSub(firstNum, secondNum),
                                str |-> <<>>]
      [] operator = <<"×">> -> [type |-> "number", num |-> NumMul(firstNum, secondNum),
                                str |-> <<>>]
      [] operator = <<"÷">> -> IF ~IsZero(secondNum)
                               THEN [type |-> "number",
                                     num |-> NumDiv(firstNum, secondNum), str |-> <<>>]
                               ELSE [type |-> "number", num |-> NaN, str |-> <<>>]
      [] OTHER -> [type |-> "number", num |-> NaN, str |-> <<>>]

\* evaluateOperation with the operands of the subtraction exchanged (the
\* other operators as in MutEvaluateNoZeroCheck).
MutEvaluateSubtractsReversed(firstNum, operator, secondNum) ==
    IF operator = <<"-">>
    THEN [type |-> "number", num |-> NumSub(secondNum, firstNum), str |-> <<>>]
    ELSE MutEvaluateNoZeroCheck(firstNum, operator, secondNum)

\* evaluateOperation with the zero check applied to nonzero dividends only:
\* 0 / 0 is left to the division, which gives NaN.
MutEvaluateZeroByZeroIsNaN(firstNum, operator, secondNum) ==
    IF operator = <<"÷">> /\ IsZero(secondNum) /\ ~IsZero(firstNum)
    THEN [type |-> "string", num |-> NaN, str |-> ErrorText]
    ELSE MutEvaluateNoZeroCheck(firstNum, operator, secondNum)

\* evaluateOperation with the letter x accepted as the multiplication sign
\* (the other operators as in MutEvaluateNoZeroCheck).
MutEvaluateAcceptsLetterX(firstNum, operator, secondNum) ==
    IF operator = <<"x">>
    THEN [type |-> "number", num |-> NumMul(firstNum, secondNum), str |-> <<>>]
    ELSE MutEvaluateNoZeroCheck(firstNum, operator, secondNum)

\* evaluateOperation(firstNum, operator, secondNum): a number, or the text
\* "Error" for a division by zero.
evaluateOperation(firstNum, operator, secondNum) ==
    CASE operator = <<"+">> -> [type |-> "number", num |-> NumAdd(firstNum, secondNum),
                            str |-> <<>>]
      [] operator = <<"-">> -> [type |-> "number", num |-> NumSub(firstNum, secondNum),
                            str |-> <<>>]
      [] operator = <<"×">> -> [type |-> "number", num |-> NumMul(firstNum, secondNum),
                            str |-> <<>>]
      [] operator = <<"÷">> -> IF ~IsZero(secondNum)
                           THEN [type |-> "number",
                                 num |-> NumDiv(firstNum, secondNum), str |-> <<>>]
                           ELSE [type |-> "string", num |-> NaN, str |-> ErrorText]
      [] OTHER -> [type |-> "number", num |-> NaN, str |-> <<>>]

RECURSIVE Truncate(_)
\* while (truncated.length > 0 && !canFitInDisplay(truncated))
\*     truncated = truncated.slice(0, -1);
Truncate(truncated) ==
    IF Len(truncated) > 0 /\ ~canFitInDisplay(truncated)
    THEN Truncate(SliceDropLast(truncated))
    ELSE truncated

\* fitResult without the truncation of a result that does not fit.
MutFitResultNoTruncation(resultString) == resultString

\* The text calculate() shows for a numeric result's resultString: the
\* text itself if it fits the display, else its longest prefix that fits,
\* else "0".
fitResult(resultString) ==
    IF ~canFitInDisplay(resultString)
    THEN IF Truncate(resultString) = <<>> THEN <<"0">>
         ELSE Truncate(resultString)
    ELSE resultString

\* The text calculate() shows for the result of evaluateOperation.
showResult(result) ==
    IF result.type = "number"
    THEN fitResult(toString(Round9(result.num)))
    ELSE result.str

\* calculatePending without the assignment shouldResetInput = true.
MutCalculatePendingKeepsFlag(s) ==
    [currentInput     |-> showResult(
                              evaluateOperation(
                                  parseFloat(Split(s.expression, " ")[1]),
                                  Split(s.expression, " ")[2],
                                  parseFloat(s.currentInput))),
     expression       |-> <<>>,
     shouldResetInput |-> s.shouldResetInput]

\* calculate(), past its early return: the pending expression is evaluated.
calculatePending(s) ==
    [currentInput     |-> showResult(
                              evaluateOperation(
                                  parseFloat(Split(s.expression, " ")[1]),
                                  Split(s.expression, " ")[2],
                                  parseFloat(s.currentInput))),
     expression       |-> <<>>,
     shouldResetInput |-> TRUE]

\* calculate without its early return: the tail of the function runs.
MutCalculateNoEarlyReturn(s) ==
    IF s.expression = <<>>
    THEN [s EXCEPT !.expression = <<>>, !.shouldResetInput = TRUE]
    ELSE calculatePending(s)

\* calculate leaving the display alone when no second operand has been
\* typed since the operator.
MutCalculateSkipsUntypedOperand(s) ==
    IF s.expression = <<>> THEN s
    ELSE IF s.shouldResetInput THEN [s EXCEPT !.expression = <<>>]
    ELSE calculatePending(s)

\* calculate()
calculate(s) == IF s.expression = <<>> THEN s ELSE calculatePending(s)

\* setOperator joining the operand and the operator without the space.
MutSetOperatorNoSpace(s, op) ==
    [currentInput     |-> s.currentInput,
     expression       |-> s.currentInput \o <<op>>,
     shouldResetInput |-> TRUE]

\* inputOperator(op), past the evaluation of a pending expression.
setOperator(s, op) ==
    [currentInput     |-> s.currentInput,
     expression       |-> s.currentInput \o <<" ", op>>,
     shouldResetInput |-> TRUE]

\* inputOperator without the evaluation of the pending expression.
MutInputOperatorNoEvaluation(s, op) == setOperator(s, op)

\* inputOperator building the new expression from the second operand
\* instead of the result of the pending expression.
MutInputOperatorStaleOperand(s, op) ==
    IF s.expression # <<>> /\ ~s.shouldResetInput
    THEN [currentInput     |-> calculate(s).currentInput,
          expression       |-> s.currentInput \o <<" ", op>>,
          shouldResetInput |-> TRUE]
    ELSE setOperator(s, op)

\* inputOperator evaluating every pending expression, whatever the reset
\* flag.
MutInputOperatorIgnoresFlag(s, op) ==
    IF s.expression # <<>> THEN setOperator(calculate(s), op) ELSE setOperator(s, op)

\* inputOperator(op)
inputOperator(s, op) ==
    IF s.expression # <<>> /\ ~s.shouldResetInput
    THEN setOperator(calculate(s), op)
    ELSE setOperator(s, op)

\* clear leaving the reset flag as it is.
MutClearKeepsFlag(s) == [s EXCEPT !.currentInput = <<"0">>, !.expression = <<>>]

\* clear()
clear(s) == [currentInput |-> <<"0">>, expression |-> <<>>,
             shouldResetInput |-> FALSE]

\* toggleSign()
toggleSign(s) ==
    IF s.currentInput # <<"0">>
    THEN LET newInput == IF StartsWith(s.currentInput, "-")
                         THEN Slice1(s.currentInput)
                         ELSE <<"-">> \o s.currentInput
         IN  IF ~canFitInDisplay(newInput) THEN s
             ELSE [s EXCEPT !.currentInput = newInput]
    ELSE s

MutPercentageRounds(s) ==
    [s EXCEPT !.currentInput =
        toString(Round9(NumDiv(parseFloat(s.currentInput), Num(FALSE, <<1, 0, 0>>, <<1>>))))]

\* percentage()
percentage(s) ==
    [s EXCEPT !.currentInput =
        toString(NumDiv(parseFloat(s.currentInput), Num(FALSE, <<1, 0, 0>>, <<1>>)))]

MutBackspaceEmpties(s) == [s EXCEPT !.currentInput = SliceDropLast(s.currentInput)]

\* backspace ending the reset of the display, as typing does.
MutBackspaceEndsReset(s) ==
    IF Len(s.currentInput) > 1
    THEN [s EXCEPT !.currentInput = SliceDropLast(s.currentInput),
                   !.shouldResetInput = FALSE]
    ELSE [s EXCEPT !.currentInput = <<"0">>, !.shouldResetInput = FALSE]

\* backspace()
backspace(s) ==
    IF Len(s.currentInput) > 1
    THEN [s EXCEPT !.currentInput = SliceDropLast(s.currentInput)]
    ELSE [s EXCEPT !.currentInput = <<"0">>]

\* handleButtonClick(value)
handleButtonClick(s, value) ==
    CASE value = "C" -> clear(s)
      [] value = "±" -> toggleSign(s)
      [] value = "%" -> percentage(s)
      [] value \in {"+", "-", "×", "÷"} -> inputOperator(s, value)
      [] value = "=" -> calculate(s)
      [] OTHER -> inputNumber(s, value)

\* keyMap is an object literal: besides its own entries, keyMap[key] finds
\* the properties every object inherits from Object.prototype.
ObjectPrototypeKeys ==
    {"constructor", "toString", "toLocaleString", "valueOf", "hasOwnProperty",
     "isPrototypeOf", "propertyIsEnumerable", "__proto__", "__defineGetter__",
     "__defineSetter__", "__lookupGetter__", "__lookupSetter__"}

\* What keyMap[key] is for an inherited property: a function, or for
\* "__proto__" the prototype object; in either case a truthy value that is
\* no text.
Inherited == "[inherited]"

\* mapKeyToValue(key): keyMap[key] || null
mapKeyToValue(key) ==
    CASE key \in {"0", "1", "2", "3", "4", "5", "6", "7", "8", "9"} -> key
      [] key \in {".", ","} -> "."
      [] key \in {"+", "-"} -> key
      [] key \in {"*", "x", "X"} -> "×"
      [] key = "/" -> "÷"
      [] key \in {"Enter", "="} -> "="
      [] key \in {"Escape", "c", "C", "Delete"} -> "C"
      [] key = "%" -> "%"
      [] key = "Backspace" -> "Backspace"
      [] key \in ObjectPrototypeKeys -> Inherited
      [] OTHER -> "null"

\* handleButtonClick(value) for an inherited value: inputNumber(value), where
\* the value's text (the source of a function, or "[object Object]") has at
\* least 15 characters and so fits no display of at most MaxCapacity
\* characters; the reset flag is cleared before the fit check.
inputInherited(s) ==
    IF s.shouldResetInput THEN [s EXCEPT !.shouldResetInput = FALSE] ELSE s

\* handleKeyboard(event), for event.key = key and event.target.tagName =
\* tagName.
handleKeyboard(s, key, tagName) ==
    IF tagName \in {"INPUT", "TEXTAREA", "SELECT"} THEN s
    ELSE IF mapKeyToValue(key) = "null" THEN s
    ELSE IF mapKeyToValue(key) = "Backspace" THEN backspace(s)
    ELSE IF mapKeyToValue(key) = Inherited THEN inputInherited(s)
    ELSE handleButtonClick(s, mapKeyToValue(key))

(***************************************************************************)
(* The converter (js/components/converter.js).                             *)
(***************************************************************************)
\* { abbr, factor }, the factor written as the decimal literal ds * 10^(-k).
Unit(abbr, ds, k) == [abbr |-> abbr, factor |-> Literal(ds, k)]

\* A temperature unit has no factor: reading it gives undefined, NaN as a
\* number.
Degree(abbr) == [abbr |-> abbr, factor |-> DNaN]

UNIT_DEFINITIONS ==
    [length |->
        <<Unit("mm", <<1>>, 3),
          Unit("cm", <<1>>, 2),
          Unit("dm", <<1>>, 1),
          Unit("m", <<1>>, 0),
          Unit("dam", <<1, 0>>, 0),
          Unit("hm", <<1, 0, 0>>, 0),
          Unit("km", <<1, 0, 0, 0>>, 0),
          Unit("in", <<2, 5, 4>>, 4),
          Unit("ft", <<3, 0, 4, 8>>, 4),
          Unit("yd", <<9, 1, 4, 4>>, 4),
          Unit("mi", <<1, 6, 0, 9, 3, 4, 4>>, 3),
          Unit("nmi", <<1, 8, 5, 2>>, 0)>>,
     mass |->
        <<Unit("mg", <<1>>, 3),
          Unit("cg", <<1>>, 2),
          Unit("dg", <<1>>, 1),
          Unit("g", <<1>>, 0),
          Unit("dag", <<1, 0>>, 0),
          Unit("hg", <<1, 0, 0>>, 0),
          Unit("kg", <<1, 0, 0, 0>>, 0),
          Unit("t", <<1, 0, 0, 0, 0, 0, 0>>, 0),
          Unit("oz", <<2, 8, 3, 4, 9, 5>>, 4),
          Unit("lb", <<4, 5, 3, 5, 9, 2>>, 3),
          Unit("st", <<6, 3, 5, 0, 2, 9>>, 2)>>,
     temperature |->
        <<Degree("°C"), Degree("°F"), Degree("K")>>,
     volume |->
        <<Unit("ml", <<1>>, 3),
          Unit("cl", <<1>>, 2),
          Unit("dl", <<1>>, 1),
          Unit("L", <<1>>, 0),
          Unit("dal", <<1, 0>>, 0),
          Unit("hl", <<1, 0, 0>>, 0),
          Unit("m³", <<1, 0, 0, 0>>, 0),
          Unit("fl oz", <<2, 9, 5, 7, 3, 5>>, 7),
          Unit("cup", <<2, 3, 6, 5, 8, 8>>, 6),
          Unit("pt", <<4, 7, 3, 1, 7, 6>>, 6),
          Unit("qt", <<9, 4, 6, 3, 5, 3>>, 6),
          Unit("gal", <<3, 7, 8, 5, 4, 1>>, 5)>>,
     time |->
        <<Unit("ns", <<1>>, 9),
          Unit("µs", <<1>>, 6),
          Unit("ms", <<1>>, 3),
          Unit("s", <<1>>, 0),
          Unit("min", <<6, 0>>, 0),
          Unit("h", <<3, 6, 0, 0>>, 0),
          Unit("d", <<8, 6, 4, 0, 0>>, 0),
          Unit("wk", <<6, 0, 4, 8, 0, 0>>, 0),
          Unit("mo", <<2, 6, 2, 9, 7, 4, 6>>, 0),
          Unit("yr", <<3, 1, 5, 5, 6, 9, 5, 2>>, 0)>>]

\* Values passed to convertValue and limitOutputSize: a number, a text, null
\* or undefined.
NumberValue(x) == [type |-> "number", num |-> x, str |-> <<>>]

StringValue(s) == [type |-> "string", num |-> DNaN, str |-> s]

NullValue == [type |-> "null", num |-> DNaN, str |-> <<>>]

UndefinedValue == [type |-> "undefined", num |-> DNaN, str |-> <<>>]

\* The text is digits with at most one decimal point, after an optional
\* minus sign.
IsDecimalText(s) ==
    /\ \E i \in 1..Len(s) : IsDigitChar(s[i])
    /\ \A i \in 1..Len(s) : IsDigitChar(s[i]) \/ s[i] = "." \/ (s[i] = "-" /\ i = 1)
    /\ Cardinality({i \in 1..Len(s) : s[i] = "."}) <= 1

\* ToNumber(value), the conversion isNaN and the arithmetic operators apply
\* to their operands: "" is 0 and a text that is no number is NaN.  (Texts
\* with an exponent, white space or a radix prefix are not passed.)
ToNumber(value) ==
    IF value.type = "number" THEN value.num
    ELSE IF value.type = "undefined" THEN DNaN
    ELSE IF value.type = "null" THEN DZero
    ELSE IF value.str = <<>> THEN DZero
    ELSE IF IsDecimalText(value.str) THEN ToDouble(parseFloat(value.str))
    ELSE DNaN

\* units[index]: undefined unless index is a position of the array.
HasUnit(units, index) == index \in 0..(Len(units) - 1)

\* The temperature in Celsius of the value in the unit fromUnit.
toCelsius(value, fromUnit) ==
    IF fromUnit.abbr = "°C" THEN value
    ELSE IF fromUnit.abbr = "°F"
    THEN NumberValue(FDiv(FMul(FSub(ToNumber(value), Literal(<<3, 2>>, 0)),
                               Literal(<<5>>, 0)),
                          Literal(<<9>>, 0)))
    ELSE NumberValue(FSub(ToNumber(value), Literal(<<2, 7, 3, 1, 5>>, 2)))

\* fromCelsius with the ratio of the Fahrenheit degree inverted: 5/9 for
\* 9/5.
MutFromCelsiusInvertedRatio(celsius, toUnit) ==
    IF toUnit.abbr = "°C" THEN celsius
    ELSE IF toUnit.abbr = "°F"
    THEN NumberValue(FAdd(FDiv(FMul(ToNumber(celsius), Literal(<<5>>, 0)),
                               Literal(<<9>>, 0)),
                          Literal(<<3, 2>>, 0)))
    ELSE NumberValue(FAdd(ToNumber(celsius), Literal(<<2, 7, 3, 1, 5>>, 2)))

\* The temperature celsius in the unit toUnit.
fromCelsius(celsius, toUnit) ==
    IF toUnit.abbr = "°C" THEN celsius
    ELSE IF toUnit.abbr = "°F"
    THEN NumberValue(FAdd(FDiv(FMul(ToNumber(celsius), Literal(<<9>>, 0)),
                               Literal(<<5>>, 0)),
                          Literal(<<3, 2>>, 0)))
    ELSE NumberValue(FAdd(ToNumber(celsius), Literal(<<2, 7, 3, 1, 5>>, 2)))

\* convertUnits rounding its result to nine decimals, as updateConversion
\* does with the result of convert.
MutConvertUnitsRounds(value, fromUnit, toUnit, category) ==
    IF category = "temperature"
    THEN fromCelsius(toCelsius(value, fromUnit), toUnit)
    ELSE NumberValue(RoundToBillionths(FDiv(FMul(ToNumber(value), fromUnit.factor),
                                            toUnit.factor)))

\* convertUnits multiplying by the factor of the target unit instead of
\* dividing by it.
MutConvertUnitsMultiplies(value, fromUnit, toUnit, category) ==
    IF category = "temperature"
    THEN fromCelsius(toCelsius(value, fromUnit), toUnit)
    ELSE NumberValue(FMul(FMul(ToNumber(value), fromUnit.factor), toUnit.factor))

\* convertValue past its guards, for the units fromUnit and toUnit.
convertUnits(value, fromUnit, toUnit, category) ==
    IF category = "temperature"
    THEN fromCelsius(toCelsius(value, fromUnit), toUnit)
    ELSE NumberValue(FDiv(FMul(ToNumber(value), fromUnit.factor), toUnit.factor))

\* convertValue without its first guard: the value is converted whatever
\* it is.
MutConvertValueNoValueGuard(value, fromIndex, toIndex, category) ==
    IF category \notin DOMAIN UNIT_DEFINITIONS
    THEN NumberValue(DZero)
    ELSE IF \/ ~HasUnit(UNIT_DEFINITIONS[category], fromIndex)
            \/ ~HasUnit(UNIT_DEFINITIONS[category], toIndex)
    THEN NumberValue(DZero)
    ELSE convertUnits(value, UNIT_DEFINITIONS[category][fromIndex + 1],
                      UNIT_DEFINITIONS[category][toIndex + 1], category)

\* convertValue(value, fromIndex, toIndex, category).  A category that is
\* no key of UNIT_DEFINITIONS gives undefined units, or an inherited
\* property of the object, which has no unit at any index.
convertValue(value, fromIndex, toIndex, category) ==
    IF ToNumber(value).nan \/ value = StringValue(<<>>)
    THEN NumberValue(DZero)
    ELSE IF category \notin DOMAIN UNIT_DEFINITIONS
    THEN NumberValue(DZero)
    ELSE IF \/ ~HasUnit(UNIT_DEFINITIONS[category], fromIndex)
            \/ ~HasUnit(UNIT_DEFINITIONS[category], toIndex)
    THEN NumberValue(DZero)
    ELSE convertUnits(value, UNIT_DEFINITIONS[category][fromIndex + 1],
                      UNIT_DEFINITIONS[category][toIndex + 1], category)

(***************************************************************************)
(* Texts of doubles: Number.prototype.toString, toFixed and toExponential. *)
(***************************************************************************)
\* The decimal digits of a natural number given by its limbs.
DigitsOfLimbs(l) ==
    Strip([i \in 1..(4 * Len(l)) |->
              (l[((i - 1) \div 4) + 1] \div NatOf(Pow10(3 - ((i - 1) % 4)))) % 10])

\* |x| * 10^t as the ratio n / d of two natural numbers.
TimesPow10(x, t) ==
    [n |-> LMul(LMul(x.m, IF x.e >= 0 THEN LPow2(x.e) ELSE <<1>>),
                IF t >= 0 THEN Limbs(Pow10(t)) ELSE <<1>>),
     d |-> LMul(IF x.e < 0 THEN LPow2(-x.e) ELSE <<1>>,
                IF t < 0 THEN Limbs(Pow10(-t)) ELSE <<1>>)]

\* The integer nearest to n / d, a tie going to the larger one.
NearestUp(w) == LDiv(LAdd(LMulSmall(w.n, 2), w.d), LMulSmall(w.d, 2)).q

\* The doubles that round to x are those between x - mm / s and x + mp / s,
\* where x = r / s * 10^k; the bounds included iff the mantissa of x is even.
Neighbourhood(x) ==
    IF x.e >= 0
    THEN IF x.m # TwoTo52
         THEN [r |-> LMulSmall(LMul(x.m, LPow2(x.e)), 2), s |-> <<2>>,
               mp |-> LPow2(x.e), mm |-> LPow2(x.e), k |-> 0]
         ELSE [r |-> LMulSmall(LMul(x.m, LPow2(x.e)), 4), s |-> <<4>>,
               mp |-> LPow2(x.e + 1), mm |-> LPow2(x.e), k |-> 0]
    ELSE IF x.m # TwoTo52
         THEN [r |-> LMulSmall(x.m, 2), s |-> LPow2(1 - x.e),
               mp |-> <<1>>, mm |-> <<1>>, k |-> 0]
         ELSE [r |-> LMulSmall(x.m, 4), s |-> LPow2(2 - x.e),
               mp |-> <<2>>, mm |-> <<1>>, k |-> 0]

\* a < b, or a <= b when the bound is included.
Below(a, b, included) == CmpMag(a, b) < 0 \/ (included /\ CmpMag(a, b) = 0)

RECURSIVE ScaleTen(_, _)
\* The power of ten k with 1/10 <= (r + mp) / s < 1 (<= 1 when the bound is
\* not included).
ScaleTen(g, even) ==
    IF Below(g.s, LAdd(g.r, g.mp), even)
    THEN ScaleTen([g EXCEPT !.s = LMulSmall(g.s, 10), !.k = g.k + 1], even)
    ELSE IF Below(LMulSmall(LAdd(g.r, g.mp), 10), g.s, ~even)
    THEN ScaleTen([g EXCEPT !.r = LMulSmall(g.r, 10), !.mp = LMulSmall(g.mp, 10),
                            !.mm = LMulSmall(g.mm, 10), !.k = g.k - 1], even)
    ELSE g

RECURSIVE DigitsFrom(_, _, _, _, _)
\* The digit q has been generated and r / s remains: the digits end with q
\* or q + 1 as soon as what remains is inside the neighbourhood.
DigitsAfter(q, r, s, mp, mm, even) ==
    IF ~Below(r, mm, even) /\ ~Below(s, LAdd(r, mp), even)
    THEN <<q>> \o DigitsFrom(r, s, mp, mm, even)
    ELSE IF ~Below(s, LAdd(r, mp), even) THEN <<q>>
    ELSE IF ~Below(r, mm, even) THEN <<q + 1>>
    ELSE IF CmpMag(LMulSmall(r, 2), s) < 0 THEN <<q>>
    ELSE <<q + 1>>

DigitsWith(q, r10, s, mp, mm, even) ==
    DigitsAfter(q, LSub(r10, LMulSmall(s, q)), s, mp, mm, even)

\* The digits of the shortest decimal in the neighbourhood, the nearest to
\* r / s among those of that length.
DigitsFrom(r, s, mp, mm, even) ==
    DigitsWith(BestDigit(LMulSmall(r, 10), s, 0, 1), LMulSmall(r, 10), s,
               LMulSmall(mp, 10), LMulSmall(mm, 10), even)

ShortestOf(g, even) ==
    [digits |-> DigitsFrom(g.r, g.s, g.mp, g.mm, even), n |-> g.k]

\* The digits d1 ... dk and the exponent n of Number::toString: the fewest
\* digits with 0.d1...dk * 10^n a decimal that reads back as x (x # 0).
Shortest(x) == ShortestOf(ScaleTen(Neighbourhood(x), Last(x.m) % 2 = 0), Last(x.m) % 2 = 0)

FormatShortest(sd) == FormatDigits(TextOfDigits(sd.digits), sd.n)

\* Number.prototype.toString() of a double.
NumberToString(x) ==
    IF x.nan THEN NaNText
    ELSE IF x.m = <<>> THEN <<"0">>
    ELSE IF x.neg THEN <<"-">> \o FormatShortest(Shortest(x))
    ELSE FormatShortest(Shortest(x))

\* |a| <= |b| for doubles a and b.
MagnitudeAtMost(a, b) ==
    IF a.m = <<>> THEN TRUE
    ELSE IF b.m = <<>> THEN FALSE
    ELSE IF a.e >= b.e THEN CmpMag(LMul(a.m, LPow2(a.e - b.e)), b.m) <= 0
    ELSE CmpMag(a.m, LMul(b.m, LPow2(b.e - a.e))) <= 0

\* The digits ds with a decimal point before the last fractionDigits of
\* them, after zeros as far as needed for one digit before the point.
PointBefore(ds, fractionDigits) ==
    IF fractionDigits = 0
    THEN IF ds = <<>> THEN <<"0">> ELSE TextOfDigits(ds)
    ELSE IF Len(ds) <= fractionDigits
    THEN <<"0", ".">> \o TextOfDigits(Zeros(fractionDigits - Len(ds)) \o ds)
    ELSE TextOfDigits(SubSeq(ds, 1, Len(ds) - fractionDigits)) \o <<".">>
         \o TextOfDigits(SubSeq(ds, Len(ds) - fractionDigits + 1, Len(ds)))

\* Number.prototype.toFixed(fractionDigits) of a double: the decimal of
\* that many decimals nearest to x, a tie going away from zero.
toFixed(x, fractionDigits) ==
    IF x.nan THEN NaNText
    ELSE IF MagnitudeAtMost(Literal(<<1>> \o Zeros(21), 0), x) THEN NumberToString(x)
    ELSE IF x.m = <<>> THEN PointBefore(<<>>, fractionDigits)
    ELSE IF x.neg
    THEN <<"-">> \o PointBefore(DigitsOfLimbs(NearestUp(TimesPow10(x, fractionDigits))),
                                fractionDigits)
    ELSE PointBefore(DigitsOfLimbs(NearestUp(TimesPow10(x, fractionDigits))),
                     fractionDigits)

\* The exponent part of toExponential: e+0 for the exponent 0.
ExponentPart(n) == IF n = 0 THEN <<"e", "+", "0">> ELSE ExponentText(n)

\* d.dd...e+n for the fractionDigits + 1 digits ds and the exponent n; one
\* digit more (a carry to the next power of ten) is 1.00...e+(n+1).
ExponentialForm(ds, n, fractionDigits) ==
    IF Len(ds) > fractionDigits + 1
    THEN <<"1">> \o (IF fractionDigits = 0 THEN <<>> ELSE <<".">>)
         \o TextOfDigits(Zeros(fractionDigits)) \o ExponentPart(n + 1)
    ELSE <<DigitChars[ds[1] + 1]>> \o (IF fractionDigits = 0 THEN <<>> ELSE <<".">>)
         \o TextOfDigits(SubSeq(ds, 2, Len(ds))) \o ExponentPart(n)

\* |x| in exponential form, given the exponent n of its first digit.
ExponentialAt(x, n, fractionDigits) ==
    ExponentialForm(DigitsOfLimbs(NearestUp(TimesPow10(x, fractionDigits - n))),
                    n, fractionDigits)

\* Number.prototype.toExponential(fractionDigits) of a double.
toExponential(x, fractionDigits) ==
    IF x.nan THEN NaNText
    ELSE IF x.m = <<>>
    THEN <<"0">> \o (IF fractionDigits = 0 THEN <<>> ELSE <<".">>)
         \o TextOfDigits(Zeros(fractionDigits)) \o ExponentPart(0)
    ELSE IF x.neg
    THEN <<"-">> \o ExponentialAt(x, Shortest(x).n - 1, fractionDigits)
    ELSE ExponentialAt(x, Shortest(x).n - 1, fractionDigits)

(***************************************************************************)
(* The byte budget of the converter's fields.                              *)
(***************************************************************************)
\* The bytes of a character in UTF-8 (of those the model's texts use).
Utf8Bytes(c) == IF c \in {"°", "µ", "³", "×", "÷"} THEN 2 ELSE IF c = "€" THEN 3 ELSE 1

RECURSIVE getByteSize(_)
\* new Blob([str]).size
getByteSize(str) ==
    IF str = <<>> THEN 0 ELSE Utf8Bytes(Head(str)) + getByteSize(Tail(str))

\* const maxLength = 7
maxLength == 7

\* String.prototype.substring(0, end)
SubstringTo(str, end) == SubSeq(str, 1, IF Len(str) < end THEN Len(str) ELSE end)

\* if (getByteSize(valueString) > 8) valueString = valueString.substring(0, maxLength)
CutToBudget(valueString) ==
    IF getByteSize(valueString) > 8 THEN SubstringTo(valueString, maxLength)
    ELSE valueString

\* toExponential(2) without its cut to maxLength characters.
MutExponentialNoTruncation(x) == toExponential(x, 2)

\* The scientific notation of x, cut to maxLength characters when it
\* exceeds 8 bytes.
Exponential(x) == CutToBudget(toExponential(x, 2))

\* value.toFixed(precision), without its trailing zeros:
\* parseFloat(valueString).toString()
AtPrecision(x, precision) ==
    NumberToString(ToDouble(parseFloat(toFixed(x, precision))))

RECURSIVE ReducePrecision(_, _)
\* One turn of the while loop: the text at the precision ends the loop if it
\* fits in 8 bytes.
FitsOrReduce(valueString, x, precision) ==
    IF getByteSize(valueString) <= 8 THEN valueString
    ELSE ReducePrecision(x, precision - 1)

\* while (byteSize > 8 && precision >= 0), from the precision given, and
\* what follows the loop when no precision fits.
ReducePrecision(x, precision) ==
    IF precision < 0 THEN Exponential(x)
    ELSE FitsOrReduce(AtPrecision(x, precision), x, precision)

\* The text of the number x within the byte budget, valueString being
\* x.toString().
WithinBudget(x, valueString) ==
    IF getByteSize(valueString) > 8 THEN ReducePrecision(x, 10) ELSE valueString

\* limitOutputSize testing only isNaN(value).
MutLimitOutputSizeOnlyNaN(value) ==
    IF ToNumber(value).nan THEN <<>>
    ELSE WithinBudget(ToNumber(value), NumberToString(ToNumber(value)))

\* limitOutputSize(value), for a number, null or undefined.
limitOutputSize(value) ==
    IF ToNumber(value).nan \/ value = NullValue \/ value = UndefinedValue THEN <<>>
    ELSE WithinBudget(value.num, NumberToString(value.num))

(***************************************************************************)
(* The converter's fields and its handlers.  A converter value is the      *)
(* record of the values of the four form controls and of currentCategory;  *)
(* every handler is the function from the converter before the call to the *)
(* converter after it.                                                     *)
(***************************************************************************)
Converter ==
    [inputValue |-> inputValue, outputValue |-> outputValue, inputUnit |-> inputUnit,
     outputUnit |-> outputUnit, currentCategory |-> currentCategory]

\* populateUnitSelectors(): the first unit is selected as the source and the
\* second as the target (every category has two units at least).
populateUnitSelectors(c) == [c EXCEPT !.inputUnit = 0, !.outputUnit = 1]

\* let currentCategory = 'length', and the fields as initConverter finds and
\* leaves them: empty, the unit selectors populated.
InitialConverter ==
    populateUnitSelectors([inputValue |-> <<>>, outputValue |-> <<>>, inputUnit |-> 0,
                           outputUnit |-> 0, currentCategory |-> "length"])

\* White space, of the characters the model's texts use.
IsSpace(c) == c \in {" ", "\t", "\n"}

RECURSIVE TrimStart(_)
TrimStart(s) == IF s # <<>> /\ IsSpace(Head(s)) THEN TrimStart(Tail(s)) ELSE s

RECURSIVE TrimEnd(_)
TrimEnd(s) == IF s # <<>> /\ IsSpace(Last(s)) THEN TrimEnd(Front(s)) ELSE s

\* String.prototype.trim()
Trim(s) == TrimEnd(TrimStart(s))

\* validateAndLimitInput past the parse: numValue = parseFloat(inputString).
LimitParsed(inputString, numValue) ==
    IF numValue.nan
    THEN IF getByteSize(inputString) <= 8 THEN inputString ELSE <<>>
    ELSE WithinBudget(numValue, NumberToString(numValue))

\* validateAndLimitInput past the trim.
LimitTrimmed(inputString) ==
    IF inputString = <<>> \/ inputString = <<"-">> \/ inputString = <<".">>
    THEN inputString
    ELSE LimitParsed(inputString, ToDouble(parseFloat(inputString)))

\* validateAndLimitInput returning every text that does not parse, whatever
\* its size.
MutValidateNoSizeCheck(c) ==
    IF ToDouble(parseFloat(Trim(c.inputValue))).nan THEN Trim(c.inputValue)
    ELSE LimitTrimmed(Trim(c.inputValue))

\* validateAndLimitInput returning the empty text for every text that does
\* not parse.
MutValidateRejectsPartial(c) ==
    IF ToDouble(parseFloat(Trim(c.inputValue))).nan THEN <<>>
    ELSE LimitTrimmed(Trim(c.inputValue))

\* validateAndLimitInput(): the text to put in the input field.
validateAndLimitInput(c) == LimitTrimmed(Trim(c.inputValue))

\* if (inputValue.value !== validatedInput) inputValue.value = validatedInput
Validated(c) == [c EXCEPT !.inputValue = validateAndLimitInput(c)]

\* convert(value, fromIndex, toIndex), the indexes being parseInt of the
\* values of the unit selectors.
convert(c, value) ==
    convertValue(NumberValue(value), c.inputUnit, c.outputUnit, c.currentCategory)

\* updateConversion past the validation of the input field.
ShowConversion(c) ==
    IF c.inputValue = <<>> THEN [c EXCEPT !.outputValue = <<>>]
    ELSE [c EXCEPT !.outputValue =
              limitOutputSize(NumberValue(RoundToBillionths(
                  convert(c, ToDouble(parseFloat(c.inputValue))).num)))]

\* updateConversion()
updateConversion(c) == ShowConversion(Validated(c))

\* The listener of the input event of the input field.
inputListener(c) == updateConversion(Validated(c))

\* handleCategoryChange without populateUnitSelectors(): the selectors keep
\* their selection.
MutCategoryChangeKeepsUnits(c, category) ==
    [c EXCEPT !.currentCategory = category, !.inputValue = <<>>, !.outputValue = <<>>]

\* handleCategoryChange(), categorySelect.value being the category.
handleCategoryChange(c, category) ==
    [populateUnitSelectors([c EXCEPT !.currentCategory = category])
        EXCEPT !.inputValue = <<>>, !.outputValue = <<>>]

(***************************************************************************)
(* The theme toggle (components/theme-toggle.js).  A theme value is the    *)
(* record of currentTheme, currentContrast and the two localStorage        *)
(* entries; applyTheme sets the stylesheet and the data-theme and          *)
(* data-contrast attributes to the same theme and contrast as the two      *)
(* variables, so these stand for what the page shows.                      *)
(***************************************************************************)
Theme ==
    [currentTheme |-> currentTheme, currentContrast |-> currentContrast,
     storedTheme |-> storedTheme, storedContrast |-> storedContrast]

\* const CONTRASTS = ['default', 'mc', 'hc']
CONTRASTS == {"default", "mc", "hc"}

\* The theme of the system colour scheme: e.matches ? 'dark' : 'light'
SchemeTheme(matches) == IF matches THEN "dark" ELSE "light"

\* getSavedTheme(), saved being localStorage.getItem(THEME_KEY) and matches
\* the system preference for dark.
getSavedTheme(saved, matches) ==
    IF saved = "light" \/ saved = "dark" THEN saved ELSE SchemeTheme(matches)

\* getSavedContrast()
getSavedContrast(saved) == IF saved \in CONTRASTS THEN saved ELSE "default"

\* applyTheme(theme, contrast): the page, the two variables and the two
\* localStorage entries are set.
applyTheme(theme, contrast) ==
    [currentTheme |-> theme, currentContrast |-> contrast,
     storedTheme |-> theme, storedContrast |-> contrast]

\* toggleTheme()
toggleTheme(t) ==
    applyTheme(IF t.currentTheme = "light" THEN "dark" ELSE "light", t.currentContrast)

\* setContrast(contrast)
setContrast(t, contrast) ==
    IF contrast \in CONTRASTS THEN applyTheme(t.currentTheme, contrast) ELSE t

\* initThemeToggle(), past its lookups of elements: the saved theme and
\* contrast are applied.
initThemeToggle(savedTheme, savedContrast, matches) ==
    applyTheme(getSavedTheme(savedTheme, matches), getSavedContrast(savedContrast))

\* The listener of the change of '(prefers-color-scheme: dark)':
\* if (!localStorage.getItem(THEME_KEY)) applyTheme(...)
schemeListener(t, matches) ==
    IF t.storedTheme = "null" \/ t.storedTheme = ""
    THEN applyTheme(SchemeTheme(matches), t.currentContrast)
    ELSE t

(***************************************************************************)
(* The tabs (components/tabs.js).  A tabs value is the record of the tab   *)
(* items (their data-tab), of the panels (their id) and of the positions   *)
(* of those that have the active class.                                    *)
(***************************************************************************)
Tabs ==
    [tabItems |-> tabItems, tabPanels |-> tabPanels,
     activeItems |-> activeItems, activePanels |-> activePanels]

\* The click listener without the removal of the active class from the
\* other tab items.
MutTabListenerKeepsActive(tabs, i) ==
    [tabs EXCEPT !.activeItems = tabs.activeItems \cup {i},
                 !.activePanels = {j \in 1..Len(tabs.tabPanels) :
                                      tabs.tabPanels[j] = tabs.tabItems[i]}]

\* The click listener of the tab item at position i.
tabListener(tabs, i) ==
    [tabs EXCEPT !.activeItems = {i},
                 !.activePanels = {j \in 1..Len(tabs.tabPanels) :
                                      tabs.tabPanels[j] = tabs.tabItems[i]}]

\* A click on the tab item at position i after initTabs(): the listeners
\* are attached only if there are tab items and panels.
tabClick(tabs, i) ==
    IF Len(tabs.tabItems) = 0 \/ Len(tabs.tabPanels) = 0 THEN tabs
    ELSE tabListener(tabs, i)

(***************************************************************************)
(* The state machine: one step per UI event.                               *)
(***************************************************************************)
\* The digit buttons pressed in the model.
Digits == {"0", "1", "3"}

\* The texts of the calculator's buttons.
Buttons == Digits \cup {".", "+", "-", "×", "÷", "=", "C", "±", "%"}

\* The keys of keyMap.
MappedKeys == {"0", "1", "2", "3", "4", "5", "6", "7", "8", "9", ".", ",",
               "+", "-", "*", "x", "X", "/", "Enter", "=", "Escape", "c",
               "C", "Delete", "%", "Backspace"}

\* The keys pressed in the model: a key of a digit, of the decimal point, of
\* an operator, of equals and of clear, the key the keyboard alone offers,
\* and a key that is not mapped.
Keys == {"1", ",", "*", "Enter", "Delete", "Backspace", "a"}

\* The elements a keydown event targets in the model.
TagNames == {"BODY", "INPUT"}

Capacities == CHARS_AT_MAX_SIZE..MaxCapacity

\* No exported function is called directly.
NoCall == [fn |-> "none"]

\* The converter after initConverter.
ConverterStarts ==
    /\ inputValue = InitialConverter.inputValue
    /\ outputValue = InitialConverter.outputValue
    /\ inputUnit = InitialConverter.inputUnit
    /\ outputUnit = InitialConverter.outputUnit
    /\ currentCategory = InitialConverter.currentCategory

\* The theme, and what localStorage holds of it, are those of t.
ThemeIs(t) ==
    /\ currentTheme = t.currentTheme
    /\ currentContrast = t.currentContrast
    /\ storedTheme = t.storedTheme
    /\ storedContrast = t.storedContrast

\* The theme after initThemeToggle on a first visit under a light system
\* scheme, and the tabs of the page, the first one active.
ChromeStarts ==
    /\ ThemeIs(initThemeToggle("null", "null", FALSE))
    /\ systemDark = FALSE
    /\ toggled = FALSE
    /\ tabItems = <<"calculator", "converter">>
    /\ tabPanels = <<"calculator", "converter">>
    /\ activeItems = {1}
    /\ activePanels = {1}

\* The state after construction (initCalculator), for a run that presses
\* one of the given scripts (<<>>: no script, free UI events).
Start(scripts) ==
    /\ currentInput = InitialSession.currentInput
    /\ expression = InitialSession.expression
    /\ shouldResetInput = InitialSession.shouldResetInput
    /\ displayCapacity \in Capacities
    /\ lastCall = [event |-> "init", value |-> "null"]
    /\ prev = InitialSession
    /\ events = 0
    /\ script \in scripts
    /\ args = NoCall
    /\ returned = NoCall
    /\ ConverterStarts
    /\ ChromeStarts

Init == Start({<<>>})

\* The session becomes s after the event call; the event and the session
\* before it are recorded.
Becomes(s, call) ==
    /\ currentInput' = s.currentInput
    /\ expression' = s.expression
    /\ shouldResetInput' = s.shouldResetInput
    /\ lastCall' = call
    /\ prev' = Session
    /\ events' = events + 1
    /\ UNCHANGED <<displayCapacity, script, args, returned, converterVars, chromeVars>>

\* button.addEventListener("click", () => handleButtonClick(value))
ButtonClick ==
    /\ events < MaxEvents
    /\ \E value \in Buttons :
           Becomes(handleButtonClick(Session, value),
                   [event |-> "click", value |-> value])

\* The record of a keydown event: its key, its target, and the value
\* dispatched ("null" when the event is ignored).
KeydownCall(key, tagName) ==
    [event |-> "keydown", key |-> key, tagName |-> tagName,
     value |-> IF tagName \in {"INPUT", "TEXTAREA", "SELECT"}
               THEN "null" ELSE mapKeyToValue(key)]

\* document.addEventListener("keydown", handleKeyboard)
Keydown ==
    /\ events < MaxEvents
    /\ \E key \in Keys, tagName \in TagNames :
           Becomes(handleKeyboard(Session, key, tagName), KeydownCall(key, tagName))

Next == ButtonClick \/ Keydown

\* Free runs: any sequence of at most MaxEvents clicks and key presses.
Spec == Init /\ [][Next]_vars

\* Keys no keyboard has, of keydown events a script dispatches: names of
\* properties keyMap inherits.
ScriptedKeys == {"toString", "constructor"}

\* document.addEventListener("keydown", handleKeyboard), for an event
\* dispatched by a script.
KeydownScripted ==
    /\ events < MaxEvents
    /\ \E key \in ScriptedKeys, tagName \in TagNames :
           Becomes(handleKeyboard(Session, key, tagName), KeydownCall(key, tagName))

\* Free runs with scripted keydown events among the clicks and key presses.
SpecScripted == Init /\ [][ButtonClick \/ Keydown \/ KeydownScripted]_vars

\* The capacities of narrow layouts, down to the display in which no text
\* fits: canFitInDisplay compares scrollHeight with parseFloat(lineHeight) *
\* MAX_DISPLAY_LINES, which is NaN, and the comparison false, when the
\* computed line-height is not a length.
NarrowCapacities == 0..MaxNarrow

\* initCalculator on a page laid out narrow.
StartNarrow ==
    /\ currentInput = InitialSession.currentInput
    /\ expression = InitialSession.expression
    /\ shouldResetInput = InitialSession.shouldResetInput
    /\ displayCapacity \in NarrowCapacities
    /\ lastCall = [event |-> "init", value |-> "null"]
    /\ prev = InitialSession
    /\ events = 0
    /\ script = <<>>
    /\ args = NoCall
    /\ returned = NoCall
    /\ ConverterStarts
    /\ ChromeStarts

\* Free runs on narrow layouts.
SpecNarrow == StartNarrow /\ [][Next]_vars

\* A scripted run clicks the buttons of its script in order.
Play ==
    /\ events < Len(script)
    /\ Becomes(handleButtonClick(Session, script[events + 1]),
               [event |-> "click", value |-> script[events + 1]])

Operators == {"+", "-", "×", "÷"}

\* The operands typed in scripted chains, as the buttons pressed for them.
ChainOperands == {<<"5">>, <<"3">>, <<"2">>, <<"1">>, <<"0">>, <<"0", ".", "5">>}

\* a op1 b op2 c =
ChainScripts ==
    {a \o <<op1>> \o b \o <<op2>> \o c \o <<"=">> :
        a \in ChainOperands, op1 \in Operators, b \in ChainOperands,
        op2 \in Operators, c \in ChainOperands}

\* Chains: from the cleared state, operand, operator, operand, operator,
\* operand, equals.
SpecChain == Start(ChainScripts) /\ [][Play]_vars

\* The digit buttons pressed in scripted digit runs.
TypedDigits == {"0", "1", "2", "3"}

RECURSIVE DigitRuns(_)
\* The sequences of at most n typed digits.
DigitRuns(n) ==
    IF n = 0 THEN {<<>>}
    ELSE DigitRuns(n - 1) \cup
         {Append(r, d) : r \in {q \in DigitRuns(n - 1) : Len(q) = n - 1},
                         d \in TypedDigits}

DigitScripts ==
    {r \o [i \in 1..k |-> d] :
        r \in DigitRuns(MaxFree), d \in TypedDigits, k \in 0..MaxRepeat}

\* Digit entry: from the cleared state, a sequence of digit presses.
SpecDigits == Start(DigitScripts) /\ [][Play]_vars

\* The operands typed before unary operations: "0", "50", or one digit
\* pressed up to MaxCapacity - 1 times.
UnaryOperands ==
    {<<"0">>, <<"5", "0">>} \cup {[i \in 1..k |-> d] : d \in {"1", "3"}, k \in 1..(MaxCapacity - 1)}

RECURSIVE UnaryRuns(_)
\* The sequences of at most n presses of the sign-toggle and percentage
\* buttons.
UnaryRuns(n) ==
    IF n = 0 THEN {<<>>}
    ELSE UnaryRuns(n - 1) \cup
         {Append(r, b) : r \in {q \in UnaryRuns(n - 1) : Len(q) = n - 1},
                         b \in {"±", "%"}}

UnaryScripts == {a \o r : a \in UnaryOperands, r \in UnaryRuns(MaxUnary)}

\* Unary operations: from the cleared state, an operand, then sign toggles
\* and percentages.
SpecUnary == Start(UnaryScripts) /\ [][Play]_vars

\* The number n / d, for integers n and d > 0.
Fraction(n, d) == Num(n < 0, DigitsOf(IF n < 0 THEN -n ELSE n), DigitsOf(d))

\* The operands passed to evaluateOperation: tenths, halves and integers,
\* and NaN.
EvalOperands ==
    {Fraction(n, d) : n \in (-MaxOperand)..MaxOperand, d \in {1, 2, 10}} \cup {NaN}

\* The operators passed to evaluateOperation: the four of the calculator,
\* and texts that are none of them.
EvalOperators == {<<"+">>, <<"-">>, <<"×">>, <<"÷">>, <<"%">>, <<"x">>, <<"*">>, <<"/">>, <<>>}

\* A module that imports evaluateOperation (the unit tests) is about to
\* call it.
StartCall(calls) ==
    /\ currentInput = InitialSession.currentInput
    /\ expression = InitialSession.expression
    /\ shouldResetInput = InitialSession.shouldResetInput
    /\ displayCapacity \in Capacities
    /\ lastCall = [event |-> "init", value |-> "null"]
    /\ prev = InitialSession
    /\ events = 0
    /\ script = <<>>
    /\ args \in calls
    /\ returned = NoCall
    /\ ConverterStarts
    /\ ChromeStarts

EvaluateCalls ==
    {[fn |-> "evaluateOperation", firstNum |-> a, operator |-> op, secondNum |-> b] :
        a \in EvalOperands, op \in EvalOperators, b \in EvalOperands}

\* evaluateOperation(firstNum, operator, secondNum) is called and returns;
\* the session is not touched.
Evaluate ==
    /\ args.fn = "evaluateOperation"
    /\ returned = NoCall
    /\ returned' = [fn |-> "evaluateOperation",
                    value |-> evaluateOperation(args.firstNum, args.operator,
                                                args.secondNum)]
    /\ UNCHANGED <<chromeVars, currentInput, expression, shouldResetInput,
                   displayCapacity,
                   lastCall, prev, events, script, args, converterVars>>

\* Direct calls of evaluateOperation.
SpecEvaluate == StartCall(EvaluateCalls) /\ [][Evaluate]_vars

\* Keys that keyMap has no entry for: letters, function and navigation
\* keys, the space bar, and names of inherited properties of objects.
OtherKeys ==
    {"a", "b", "d", "e", "f", "g", "h", "i", "j", "k", "l", "m", "n", "o", "p",
     "q", "r", "s", "t", "u", "v", "w", "y", "z", "F1", "F2", "F3", "F4", "F5",
     "Shift", "Control", "Alt", "Tab", "ArrowLeft", "ArrowRight", " ",
     "constructor", "toString", "valueOf", "__proto__"}

MapKeyCalls == {[fn |-> "mapKeyToValue", key |-> k] : k \in MappedKeys \cup OtherKeys}

\* mapKeyToValue(key) is called and returns; the session is not touched.
MapKey ==
    /\ args.fn = "mapKeyToValue"
    /\ returned = NoCall
    /\ returned' = [fn |-> "mapKeyToValue", value |-> mapKeyToValue(args.key)]
    /\ UNCHANGED <<chromeVars, currentInput, expression, shouldResetInput,
                   displayCapacity,
                   lastCall, prev, events, script, args, converterVars>>

\* Direct calls of mapKeyToValue.
SpecMapKey == StartCall(MapKeyCalls) /\ [][MapKey]_vars

\* The numbers and texts passed to convertValue.
ConvertValues ==
    {NumberValue(Literal(<<>>, 0)), NumberValue(Literal(<<1>>, 0)),
     NumberValue(Literal(<<3>>, 0)), NumberValue(Literal(<<1>>, 1)),
     NumberValue(Literal(<<6, 0>>, 0)), NumberValue(Literal(<<1, 0, 0>>, 0)),
     NumberValue(FNeg(Literal(<<4, 0>>, 0))), NumberValue(DNaN), StringValue(<<>>), StringValue(<<"a", "b", "c">>)}

\* The categories passed to convertValue: the five of UNIT_DEFINITIONS, a
\* name that is none of them, the empty name, and the name of a property
\* every object inherits.
ConvertCategories ==
    {"length", "mass", "temperature", "volume", "time", "speed", "", "constructor"}

\* The unit indexes passed to convertValue.
ConvertIndexes == (-1)..MaxIndex

ConvertCalls ==
    {[fn |-> "convertValue", value |-> v, fromIndex |-> i, toIndex |-> j, category |-> c] :
        v \in ConvertValues, i \in ConvertIndexes, j \in ConvertIndexes,
        c \in ConvertCategories}

\* convertValue(value, fromIndex, toIndex, category) is called and returns.
Convert ==
    /\ args.fn = "convertValue"
    /\ returned = NoCall
    /\ returned' = [fn |-> "convertValue",
                    value |-> convertValue(args.value, args.fromIndex, args.toIndex,
                                           args.category)]
    /\ UNCHANGED <<chromeVars, currentInput, expression, shouldResetInput,
                   displayCapacity,
                   lastCall, prev, events, script, args, converterVars>>

\* Direct calls of convertValue.
SpecConvert == StartCall(ConvertCalls) /\ [][Convert]_vars

\* The numbers converted there and back: an integer, a fraction and a
\* negative number.
RoundTripValues ==
    {NumberValue(Literal(<<3>>, 0)), NumberValue(Literal(<<1>>, 1)),
     NumberValue(FNeg(Literal(<<4, 0>>, 0)))}

\* A value, a category and two units of it.
RoundTripCalls ==
    {[fn |-> "roundTrip", value |-> v, fromIndex |-> i, toIndex |-> j, category |-> c] :
        v \in RoundTripValues, i \in 0..MaxIndex, j \in 0..MaxIndex,
        c \in DOMAIN UNIT_DEFINITIONS}

\* convertValue(convertValue(value, i, j, category), j, i, category): the
\* value is converted to the other unit, and the result is converted back.
RoundTrip ==
    /\ args.fn = "roundTrip"
    /\ returned = NoCall
    /\ HasUnit(UNIT_DEFINITIONS[args.category], args.fromIndex)
    /\ HasUnit(UNIT_DEFINITIONS[args.category], args.toIndex)
    /\ \E there \in {convertValue(args.value, args.fromIndex, args.toIndex,
                                  args.category)} :
           returned' =
               [fn |-> "roundTrip",
                there |-> there,
                value |-> convertValue(there, args.toIndex, args.fromIndex,
                                       args.category)]
    /\ UNCHANGED <<chromeVars, currentInput, expression, shouldResetInput,
                   displayCapacity,
                   lastCall, prev, events, script, args, converterVars>>

\* Conversions there and back.
SpecRoundTrip == StartCall(RoundTripCalls) /\ [][RoundTrip]_vars

\* The double of the decimal literal ds * 10^(-k), and of its negation.
BothSigns(ds, k) == {NumberValue(Literal(ds, k)), NumberValue(FNeg(Literal(ds, k)))}

\* The values passed to limitOutputSize: those of the unit tests (NaN, null,
\* undefined, 0, 42, 3.14, 123456789012345), the digits 123456789 at every
\* place of the decimal point, and numbers whose texts are long, tiny or
\* huge.
LimitValues ==
    {NumberValue(DNaN), NullValue, UndefinedValue, NumberValue(DZero),
     NumberValue(Literal(<<4, 2>>, 0)), NumberValue(Literal(<<3, 1, 4>>, 2)),
     NumberValue(FAdd(Literal(<<1>>, 1), Literal(<<2>>, 1))),
     NumberValue(Literal(<<1>> \o Zeros(21), 0)),
     NumberValue(Literal(<<1, 5>>, 8))}
    \cup BothSigns(<<1, 2, 3, 4, 5, 6, 7, 8, 9, 0, 1, 2, 3, 4, 5>>, 0)
    \cup BothSigns(<<1, 2, 3, 4, 5, 6, 7, 8, 9, 1>>, 3)
    \cup BothSigns(<<1, 2, 3, 4, 5, 6, 7>>, 12)
    \cup BothSigns(<<9, 9, 9, 9, 9, 9, 9, 9, 5>>, 1)
    \cup BothSigns(<<1, 2, 3, 4, 5, 6, 7, 8>>, 0)
    \cup BothSigns(<<1>>, 9)
    \cup BothSigns(<<3, 1, 5, 5, 6, 9, 5, 2>> \o Zeros(9), 0)
    \cup UNION {BothSigns(<<1, 2, 3, 4, 5, 6, 7, 8, 9>>, k) : k \in 0..MaxShift}

LimitCalls == {[fn |-> "limitOutputSize", value |-> v] : v \in LimitValues}

\* limitOutputSize(value) is called and returns.
Limit ==
    /\ args.fn = "limitOutputSize"
    /\ returned = NoCall
    /\ returned' = [fn |-> "limitOutputSize", value |-> limitOutputSize(args.value)]
    /\ UNCHANGED <<chromeVars, currentInput, expression, shouldResetInput,
                   displayCapacity,
                   lastCall, prev, events, script, args, converterVars>>

\* Direct calls of limitOutputSize.
SpecLimit == StartCall(LimitCalls) /\ [][Limit]_vars

\* The texts an edit leaves in the input field before its input event:
\* typed or pasted, partial, padded, too long, not numeric.
InputTexts ==
    {<<>>, <<"-">>, <<".">>, <<" ", "-", " ">>, <<"1", ".", "5">>,
     <<" ", "4", "2", " ">>, <<"1", "2", "a", "b", "c">>, <<"a", "b", "c">>,
     <<"a", "b", "c", "d", "e", "f", "g", "h", "i">>,
     <<"°", "°", "°", "°">>, <<"°", "°", "°", "°", "°">>,
     <<"1", "e", "5">>, <<"1", "2", "3", "4", "5", "6", "7", "8">>,
     <<"1", "2", "3", "4", "5", "6", "7", "8", "9">>,
     <<"0", ".", "0", "0", "0", "0", "0", "1", "2", "3", "4", "5", "6", "7">>,
     <<"-", "1", "2", "3", "4", "5", "6", "7", "8", "9", "0", "1", "2", "3", "4", "5">>}

\* The texts validateAndLimitInput is applied to: those of the edits, and
\* the texts of numbers, long, tiny and huge, as pasted.
ValidateTexts ==
    InputTexts \cup {NumberToString(v.num) : v \in {w \in LimitValues : w.type = "number"}}

\* The page is loaded and an edit has left a text in the input field.
StartValidate ==
    /\ currentInput = InitialSession.currentInput
    /\ expression = InitialSession.expression
    /\ shouldResetInput = InitialSession.shouldResetInput
    /\ displayCapacity \in Capacities
    /\ lastCall = [event |-> "init", value |-> "null"]
    /\ prev = InitialSession
    /\ events = 0
    /\ script = <<>>
    /\ args = [fn |-> "validateAndLimitInput"]
    /\ returned = NoCall
    /\ inputValue \in ValidateTexts
    /\ outputValue = InitialConverter.outputValue
    /\ inputUnit = InitialConverter.inputUnit
    /\ outputUnit = InitialConverter.outputUnit
    /\ currentCategory = InitialConverter.currentCategory
    /\ ChromeStarts

\* const validated = validateAndLimitInput();
\* if (inputValue.value !== validated) inputValue.value = validated;
\* as the input listener does it, and updateConversion after it: the text
\* found in the field and the text returned are recorded.
Validate ==
    /\ args.fn = "validateAndLimitInput"
    /\ events < 2
    /\ \E validated \in {validateAndLimitInput(Converter)} :
           /\ returned' = [fn |-> "validateAndLimitInput", text |-> inputValue,
                           value |-> validated]
           /\ inputValue' = validated
    /\ events' = events + 1
    /\ UNCHANGED <<chromeVars, currentInput, expression, shouldResetInput,
                   displayCapacity,
                   lastCall, prev, script, args, outputValue, inputUnit, outputUnit,
                   currentCategory>>

\* The two applications of validateAndLimitInput of one input event.
SpecValidate == StartValidate /\ [][Validate]_vars

\* The indexes the unit selectors are set to: options of the category.
UnitChoices == {i \in 0..MaxUnit : HasUnit(UNIT_DEFINITIONS[currentCategory], i)}

\* The form controls become those of c after the event call.
Shows(c, call) ==
    /\ inputValue' = c.inputValue
    /\ outputValue' = c.outputValue
    /\ inputUnit' = c.inputUnit
    /\ outputUnit' = c.outputUnit
    /\ currentCategory' = c.currentCategory
    /\ lastCall' = call
    /\ events' = events + 1
    /\ UNCHANGED <<chromeVars, currentInput, expression, shouldResetInput,
                   displayCapacity,
                   prev, script, args, returned>>

\* inputValue.addEventListener('input', ...): an edit has left the text in
\* the input field.
InputEdited ==
    /\ events < MaxEdits
    /\ \E text \in InputTexts :
           \E c \in {inputListener([Converter EXCEPT !.inputValue = text])} :
               Shows(c, [event |-> "input", value |-> text])

\* The events updateConversion is the listener of: keyup and change of the
\* input field, change of either unit selector.
UpdateEvents == {"keyup", "change", "inputUnit", "outputUnit"}

\* The converter as the event finds it, i being the index selected in the
\* unit selector the event comes from.
Selected(c, event, i) ==
    IF event = "inputUnit" THEN [c EXCEPT !.inputUnit = i]
    ELSE IF event = "outputUnit" THEN [c EXCEPT !.outputUnit = i]
    ELSE c

\* What the event finds in the control it comes from.
Found(event, i) == IF event \in {"keyup", "change"} THEN inputValue ELSE i

\* inputValue.addEventListener('keyup', updateConversion), and the same for
\* 'change' and for 'change' of inputUnit and of outputUnit (another option
\* of the category has been selected).
UpdateConversion ==
    /\ events < MaxEdits
    /\ \E event \in UpdateEvents :
           \E i \in IF event \in {"keyup", "change"} THEN {inputUnit} ELSE UnitChoices :
               \E c \in {updateConversion(Selected(Converter, event, i))} :
                   Shows(c, [event |-> event, value |-> Found(event, i)])

\* categorySelect.addEventListener('change', handleCategoryChange)
CategoryChange ==
    /\ events < MaxEdits
    /\ \E category \in DOMAIN UNIT_DEFINITIONS :
           Shows(handleCategoryChange(Converter, category),
                 [event |-> "category", value |-> category])

ConverterNext == InputEdited \/ UpdateConversion \/ CategoryChange

\* Free runs of the converter: any sequence of at most MaxEdits events.
SpecConverter == Init /\ [][ConverterNext]_vars

\* What localStorage holds when the page is loaded: nothing on a first
\* visit, else what applyTheme stored on the visit before.
SavedThemes == {"null", "light", "dark"}

SavedContrasts == {"null"} \cup CONTRASTS

\* The data-contrast of the contrast buttons clicked in the model: the three
\* levels, and a level that is none.
ContrastButtons == CONTRASTS \cup {"xl"}

\* The page is loaded and initThemeToggle has run.  The toggle has not been
\* clicked on a first visit; on a later visit it may have been clicked
\* before.
StartTheme ==
    /\ currentInput = InitialSession.currentInput
    /\ expression = InitialSession.expression
    /\ shouldResetInput = InitialSession.shouldResetInput
    /\ displayCapacity \in Capacities
    /\ lastCall = [event |-> "init", value |-> "null"]
    /\ prev = InitialSession
    /\ events = 0
    /\ script = <<>>
    /\ args = NoCall
    /\ returned = NoCall
    /\ ConverterStarts
    /\ systemDark \in BOOLEAN
    /\ \E savedTheme \in SavedThemes, savedContrast \in SavedContrasts :
           /\ ThemeIs(initThemeToggle(savedTheme, savedContrast, systemDark))
           /\ toggled \in IF savedTheme = "null" THEN {FALSE} ELSE BOOLEAN
    /\ tabItems = <<"calculator", "converter">>
    /\ tabPanels = <<"calculator", "converter">>
    /\ activeItems = {1}
    /\ activePanels = {1}

\* The theme becomes t after the event call.
ThemeBecomes(t, call) ==
    /\ currentTheme' = t.currentTheme
    /\ currentContrast' = t.currentContrast
    /\ storedTheme' = t.storedTheme
    /\ storedContrast' = t.storedContrast
    /\ lastCall' = call
    /\ events' = events + 1
    /\ UNCHANGED <<currentInput, expression, shouldResetInput, displayCapacity, prev,
                   script, args, returned, converterVars, tabVars>>

\* toggleButton.addEventListener('click', toggleTheme)
ThemeToggleClick ==
    /\ events < MaxClicks
    /\ ThemeBecomes(toggleTheme(Theme), [event |-> "themeToggle", value |-> "null"])
    /\ toggled' = TRUE
    /\ UNCHANGED systemDark

\* btn.addEventListener('click', () => setContrast(btn.getAttribute('data-contrast')))
ContrastClick ==
    /\ events < MaxClicks
    /\ \E contrast \in ContrastButtons :
           ThemeBecomes(setContrast(Theme, contrast),
                        [event |-> "contrast", value |-> contrast])
    /\ UNCHANGED <<systemDark, toggled>>

\* The system colour scheme changes, and the listener of the media query
\* runs with e.matches the new preference for dark; the call records the
\* theme of the new scheme.
SchemeChange ==
    /\ events < MaxClicks
    /\ systemDark' = ~systemDark
    /\ ThemeBecomes(schemeListener(Theme, ~systemDark),
                    [event |-> "schemeChange", value |-> SchemeTheme(~systemDark)])
    /\ UNCHANGED toggled

ThemeNext == ThemeToggleClick \/ ContrastClick \/ SchemeChange

\* Runs of the theme toggle: at most MaxClicks events after initThemeToggle.
SpecTheme == StartTheme /\ [][ThemeNext]_vars

\* The tab items and panels of a page, by data-tab and by id: the two tabs
\* of the application, a page with a third tab that has no panel, a page
\* with a third tab and its panel, and a container with tab items and no
\* panel, where initTabs returns before it attaches a listener.
TabLayouts ==
    {[items |-> <<"calculator", "converter">>, panels |-> <<"calculator", "converter">>],
     [items |-> <<"calculator", "converter">>, panels |-> <<>>],
     [items |-> <<"calculator", "converter", "history">>,
      panels |-> <<"calculator", "converter">>],
     [items |-> <<"calculator", "converter", "history">>,
      panels |-> <<"calculator", "converter", "history">>]}

\* The page is loaded and initTabs has run; the active classes are those of
\* the markup, whatever they are.
StartTabs ==
    /\ currentInput = InitialSession.currentInput
    /\ expression = InitialSession.expression
    /\ shouldResetInput = InitialSession.shouldResetInput
    /\ displayCapacity \in Capacities
    /\ lastCall = [event |-> "init", value |-> "null"]
    /\ prev = InitialSession
    /\ events = 0
    /\ script = <<>>
    /\ args = NoCall
    /\ returned = NoCall
    /\ ConverterStarts
    /\ ThemeIs(initThemeToggle("null", "null", FALSE))
    /\ systemDark = FALSE
    /\ toggled = FALSE
    /\ \E layout \in TabLayouts :
           /\ tabItems = layout.items
           /\ tabPanels = layout.panels
           /\ activeItems \in SUBSET (1..Len(layout.items))
           /\ activePanels \in SUBSET (1..Len(layout.panels))

\* The tab item at position i is clicked: its listener runs, if initTabs
\* attached one.
TabClick ==
    /\ events < MaxClicks
    /\ \E i \in 1..Len(tabItems) :
           /\ activeItems' = tabClick(Tabs, i).activeItems
           /\ activePanels' = tabClick(Tabs, i).activePanels
           /\ lastCall' = [event |-> "tabClick", value |-> i]
    /\ events' = events + 1
    /\ UNCHANGED <<currentInput, expression, shouldResetInput, displayCapacity, prev,
                   script, args, returned, converterVars, themeVars, tabItems,
                   tabPanels>>

\* Runs of the tabs: at most MaxClicks clicks after initTabs.
SpecTabs == StartTabs /\ [][TabClick]_vars

(***************************************************************************)
(* Vocabulary of the properties.                                           *)
(***************************************************************************)
NumberTokens == {"0", "1", "2", "3", "4", "5", "6", "7", "8", "9", "."}

\* The first operand and the operator of a pending expression "a op".
PendingOperand(e) == SubSeq(e, 1, Len(e) - 2)

PendingOperator(e) == e[Len(e)]

\* Standard arithmetic: a op b (b # 0 for a division).
Arith(a, op, b) ==
    CASE op = "+" -> NumAdd(a, b)
      [] op = "-" -> NumSub(a, b)
      [] op = "×" -> NumMul(a, b)
      [] op = "÷" -> NumDiv(a, b)

\* The canonical decimal string of round(x * 1e9) / 1e9.
Canonical9(x) == toString(Round9(x))

\* A text as the display holds it: whole if it fits, else its first
\* displayCapacity characters ("0" if there are none).
Fitted(text) ==
    IF Len(text) <= displayCapacity THEN text
    ELSE IF displayCapacity = 0 THEN <<"0">>
    ELSE SubSeq(text, 1, displayCapacity)

\* The event just handled dispatched the button value v.
Dispatched(v) == lastCall.value = v

\* Positions of the operators in a script, in order.
OperatorPositions(sc) == {i \in 1..Len(sc) : sc[i] \in Operators}

FirstOperatorAt(sc) ==
    CHOOSE i \in OperatorPositions(sc) : \A j \in OperatorPositions(sc) : i <= j

SecondOperatorAt(sc) ==
    CHOOSE i \in OperatorPositions(sc) : \A j \in OperatorPositions(sc) : j <= i

\* The operands and operators of a chain script  a op1 b op2 c =.
ChainA(sc) == parseFloat(SubSeq(sc, 1, FirstOperatorAt(sc) - 1))

ChainB(sc) == parseFloat(SubSeq(sc, FirstOperatorAt(sc) + 1, SecondOperatorAt(sc) - 1))

ChainC(sc) == parseFloat(SubSeq(sc, SecondOperatorAt(sc) + 1, Len(sc) - 1))

ChainOp1(sc) == sc[FirstOperatorAt(sc)]

ChainOp2(sc) == sc[SecondOperatorAt(sc)]

\* Neither evaluation of the chain divides by zero.
ChainDefined(sc) ==
    /\ ~(ChainOp1(sc) = "÷" /\ IsZero(ChainB(sc)))
    /\ ~(ChainOp2(sc) = "÷" /\ IsZero(ChainC(sc)))

\* The text shown once the first operation of the chain is evaluated.
ChainFirstShown(sc) == Fitted(Canonical9(Arith(ChainA(sc), ChainOp1(sc), ChainB(sc))))

C2_OperatorEvaluatesPending ==
    (lastCall.value \in Operators /\ prev.expression # <<>> /\ ~prev.shouldResetInput) =>
        /\ currentInput = calculate(prev).currentInput
        /\ expression = calculate(prev).currentInput \o <<" ", lastCall.value>>
        /\ shouldResetInput

C2_Witness ==
    /\ Dispatched("-")
    /\ prev = [currentInput |-> <<"3">>, expression |-> <<"1", " ", "+">>,
               shouldResetInput |-> FALSE]
    /\ currentInput = <<"4">>
    /\ expression = <<"4", " ", "-">>

\* equals is pressed with a pending expression whose evaluation is not a
\* division by zero.
EqualsOnPending ==
    /\ Dispatched("=")
    /\ prev.expression # <<>>
    /\ ~(PendingOperator(prev.expression) = "÷" /\ IsZero(parseFloat(prev.currentInput)))

PendingValue ==
    Arith(parseFloat(PendingOperand(prev.expression)), PendingOperator(prev.expression),
          parseFloat(prev.currentInput))

(***************************************************************************)
(* C3 (as stated): equals with a pending expression "a op" and             *)
(* currentInput b (no division by zero) sets currentInput to the canonical *)
(* decimal string of round((a op b) * 1e9) / 1e9, expression to "" and     *)
(* shouldResetInput to true.                                               *)
(***************************************************************************)
C3_EqualsShowsCanonical ==
    EqualsOnPending =>
        /\ currentInput = Canonical9(PendingValue)
        /\ expression = <<>>
        /\ shouldResetInput

(***************************************************************************)
(* C3 (amended): ... sets currentInput to that canonical string when it    *)
(* fits the display, and otherwise to its longest prefix that fits; sets   *)
(* expression to "" and shouldResetInput to true.                          *)
(***************************************************************************)
C3_EqualsShowsFitted ==
    EqualsOnPending =>
        /\ currentInput = Fitted(Canonical9(PendingValue))
        /\ expression = <<>>
        /\ shouldResetInput

C3_Witness ==
    /\ Dispatched("=")
    /\ prev = [currentInput |-> <<"3">>, expression |-> <<"1", " ", "÷">>,
               shouldResetInput |-> FALSE]
    /\ Len(currentInput) = displayCapacity
    /\ SubSeq(currentInput, 1, 5) = <<"0", ".", "3", "3", "3">>

(***************************************************************************)
(* C4: equals with a pending division whose second operand (currentInput)  *)
(* parses to zero sets currentInput to exactly "Error", clears expression  *)
(* and sets shouldResetInput to true.                                      *)
(***************************************************************************)
C4_DivisionByZeroShowsError ==
    (/\ Dispatched("=")
     /\ prev.expression # <<>>
     /\ PendingOperator(prev.expression) = "÷"
     /\ IsZero(parseFloat(prev.currentInput))) =>
        /\ currentInput = <<"E", "r", "r", "o", "r">>
        /\ expression = <<>>
        /\ shouldResetInput

C4_Witness ==
    /\ Dispatched("=")
    /\ prev = [currentInput |-> <<"0">>, expression |-> <<"3", " ", "÷">>,
               shouldResetInput |-> FALSE]
    /\ currentInput = ErrorText

(***************************************************************************)
(* C5: equals is a no-op when no expression is pending: currentInput,      *)
(* expression and shouldResetInput are unchanged.                          *)
(***************************************************************************)
C5_EqualsWithoutExpressionIsNoOp ==
    (Dispatched("=") /\ prev.expression = <<>>) => Session = prev

C5_Witness ==
    /\ Dispatched("=")
    /\ prev = [currentInput |-> <<"3">>, expression |-> <<>>,
               shouldResetInput |-> FALSE]
    /\ Session = prev

\* The number of mantissa digits of an unsigned text, and the text after
\* its mantissa  digits [. digits].
MantissaDigits(u) ==
    DigitPrefixLen(u)
    + (IF StartsWith(AfterDigits(u), ".")
       THEN DigitPrefixLen(Tail(AfterDigits(u))) ELSE 0)

AfterMantissa(u) ==
    IF StartsWith(AfterDigits(u), ".") THEN AfterDigits(Tail(AfterDigits(u)))
    ELSE AfterDigits(u)

\* Nothing, or an exponent part  e [+-] digits.
IsExponentPart(r) ==
    \/ r = <<>>
    \/ /\ StartsWith(r, "e")
       /\ Len(r) >= 2
       /\ \/ /\ r[2] \in {"+", "-"}
             /\ Len(r) >= 3
             /\ \A i \in 3..Len(r) : IsDigitChar(r[i])
          \/ \A i \in 2..Len(r) : IsDigitChar(r[i])

IsUnsignedLiteral(u) == MantissaDigits(u) >= 1 /\ IsExponentPart(AfterMantissa(u))

\* A (possibly negative) decimal numeric literal.
IsNumericLiteral(text) ==
    IF StartsWith(text, "-") THEN IsUnsignedLiteral(Tail(text))
    ELSE IsUnsignedLiteral(text)

(***************************************************************************)
(* C6: in every reachable state currentInput is a valid numeric literal    *)
(* (which "0" is) or the error marker "Error".                             *)
(***************************************************************************)
C6_InputIsNumericOrError ==
    IsNumericLiteral(currentInput) \/ currentInput = <<"E", "r", "r", "o", "r">>

(***************************************************************************)
(* C7: a digit or decimal point entered while shouldResetInput is true     *)
(* starts a fresh operand: currentInput becomes exactly the entered token, *)
(* shouldResetInput becomes false, expression is unchanged.                *)
(***************************************************************************)
C7_EntryAfterResetStartsFresh ==
    (lastCall.value \in NumberTokens /\ prev.shouldResetInput) =>
        /\ currentInput = <<lastCall.value>>
        /\ ~shouldResetInput
        /\ expression = prev.expression

C7_Witness ==
    /\ Dispatched("3")
    /\ prev = [currentInput |-> <<"1">>, expression |-> <<"1", " ", "+">>,
               shouldResetInput |-> TRUE]
    /\ currentInput = <<"3">>
    /\ ~shouldResetInput

RECURSIVE WithoutLeadingZeros(_)
\* The digits typed, a "0" typed on a lone "0" being replaced: the text
\* without its leading zeros, "0" if nothing else is left.
WithoutLeadingZeros(text) ==
    IF text = <<>> THEN <<"0">>
    ELSE IF Head(text) = "0" THEN WithoutLeadingZeros(Tail(text))
    ELSE text

\* The digits a scripted run has pressed so far.
Typed == SubSeq(script, 1, events)

(***************************************************************************)
(* C8 (as stated): from the cleared state a sequence of digits yields      *)
(* their concatenation, a digit entered on a lone "0" replacing it and     *)
(* every other digit being appended.                                       *)
(***************************************************************************)
C8_DigitsConcatenate == currentInput = WithoutLeadingZeros(Typed)

(***************************************************************************)
(* C8 (amended): ... every other digit being appended as long as the text  *)
(* fits the display; a digit that would not fit is ignored.  So            *)
(* currentInput is the concatenation (a lone "0" replaced) cut to the      *)
(* display's capacity; "1","2","3" gives "123".                            *)
(***************************************************************************)
C8_DigitsConcatenateWhileFitting ==
    /\ currentInput = Fitted(WithoutLeadingZeros(Typed))
    /\ (Typed = <<"1", "2", "3">>) => currentInput = <<"1", "2", "3">>

C8_Witness ==
    /\ script = <<"0", "1", "2", "3">>
    /\ events = 4
    /\ currentInput = <<"1", "2", "3">>

DotCount(text) == Cardinality({i \in 1..Len(text) : text[i] = "."})

(***************************************************************************)
(* C9: entering "." while shouldResetInput is false and currentInput       *)
(* already contains "." leaves currentInput, expression and                *)
(* shouldResetInput unchanged; and currentInput never contains two         *)
(* decimal points.                                                         *)
(***************************************************************************)
C9_DecimalGuard ==
    /\ (Dispatched(".") /\ ~prev.shouldResetInput /\ Includes(prev.currentInput, "."))
           => Session = prev
    /\ DotCount(currentInput) <= 1

C9_Witness ==
    /\ Dispatched(".")
    /\ prev = [currentInput |-> <<"1", ".", "3">>, expression |-> <<>>,
               shouldResetInput |-> FALSE]
    /\ currentInput = <<"1", ".", "3">>

(***************************************************************************)
(* C10: clear, in any reachable state, returns the session to the initial  *)
(* state: currentInput = "0", expression = "", shouldResetInput = false.   *)
(***************************************************************************)
C10_ClearResets ==
    Dispatched("C") =>
        /\ currentInput = <<"0">>
        /\ expression = <<>>
        /\ ~shouldResetInput

C10_Witness ==
    /\ Dispatched("C")
    /\ prev.expression # <<>>
    /\ prev.shouldResetInput
    /\ prev.currentInput # <<"0">>
    /\ Session = InitialSession

(***************************************************************************)
(* Scripted runs are deterministic: the session after the first k buttons  *)
(* of a script.                                                            *)
(***************************************************************************)
RECURSIVE SessionAfter(_, _)
SessionAfter(sc, k) ==
    IF k = 0 THEN InitialSession
    ELSE handleButtonClick(SessionAfter(sc, k - 1), sc[k])

\* The text is a numeric literal of a nonzero value.
DenotesNonzero(text) == IsNumericLiteral(text) /\ ~IsZero(parseFloat(text))

\* The last two buttons pressed were both the sign toggle.
ToggledTwice ==
    /\ script # <<>>
    /\ events >= 2
    /\ script[events] = "±"
    /\ script[events - 1] = "±"

(***************************************************************************)
(* C11: toggleSign is a no-op when currentInput is "0", and for any        *)
(* reachable currentInput x that denotes a nonzero value two consecutive   *)
(* toggleSign calls restore exactly x.                                     *)
(***************************************************************************)
C11_ToggleSignTwiceRestores ==
    /\ (Dispatched("±") /\ prev.currentInput = <<"0">>) => Session = prev
    /\ (ToggledTwice /\ DenotesNonzero(SessionAfter(script, events - 2).currentInput)) =>
           currentInput = SessionAfter(script, events - 2).currentInput

\* The number one hundred.
Hundred == Num(FALSE, <<1, 0, 0>>, <<1>>)

C13_BackspaceRemovesLast ==
    Dispatched("Backspace") =>
        /\ Len(prev.currentInput) > 1 =>
               /\ Len(currentInput) = Len(prev.currentInput) - 1
               /\ \A i \in 1..Len(currentInput) : currentInput[i] = prev.currentInput[i]
        /\ Len(prev.currentInput) = 1 => currentInput = <<"0">>
        /\ expression = prev.expression
        /\ shouldResetInput = prev.shouldResetInput

C13_Witness ==
    /\ Dispatched("Backspace")
    /\ prev.currentInput = <<"3">>
    /\ currentInput = <<"0">>

(***************************************************************************)
(* C14: after a division by zero has put "Error" in currentInput, the next *)
(* digit press starts a fresh operand: currentInput becomes exactly that   *)
(* digit (so it does not contain the text "Error") and shouldResetInput    *)
(* becomes false.                                                          *)
(***************************************************************************)
C14_DigitAfterErrorStartsFresh ==
    \A i \in 1..10 :
        (Dispatched(DigitChars[i]) /\ prev.currentInput = <<"E", "r", "r", "o", "r">>) =>
            /\ currentInput = <<DigitChars[i]>>
            /\ ~shouldResetInput

C14_Witness ==
    /\ Dispatched("3")
    /\ prev.currentInput = <<"E", "r", "r", "o", "r">>
    /\ prev.expression = <<>>
    /\ currentInput = <<"3">>

(***************************************************************************)
(* Direct calls of evaluateOperation.  Operands and results are compared   *)
(* as fractions of integers: x = p / q  iff  Numer(x) * q = p * Denom(x).  *)
(***************************************************************************)
Numer(x) == (IF x.neg THEN -1 ELSE 1) * NatOf(x.num)

Denom(x) == NatOf(x.den)

IsRatio(x, p, q) == ~x.nan /\ Denom(x) # 0 /\ Numer(x) * q = p * Denom(x)

EvaluateReturned == returned.fn = "evaluateOperation"

\* The call has two numbers as operands, the second not zero.
NumbersGiven ==
    /\ ~args.firstNum.nan
    /\ ~args.secondNum.nan

AN == Numer(args.firstNum)

AD == Denom(args.firstNum)

BN == Numer(args.secondNum)

BD == Denom(args.secondNum)

C16_DivisionByZeroReturnsError ==
    (/\ EvaluateReturned
     /\ args.operator = <<"÷">>
     /\ ~args.secondNum.nan
     /\ BN = 0) =>
        /\ returned.value.type = "string"
        /\ returned.value.str = <<"E", "r", "r", "o", "r">>

C16_Witness ==
    /\ EvaluateReturned
    /\ args.firstNum = Fraction(0, 1)
    /\ args.operator = <<"÷">>
    /\ args.secondNum = Fraction(0, 1)
    /\ returned.value.str = <<"E", "r", "r", "o", "r">>

(***************************************************************************)
(* C17: evaluateOperation(a, op, b) returns NaN for every operator text    *)
(* that is none of "+", "-", "×", "÷" (such as "%" and "x"), for all a, b. *)
(***************************************************************************)
C17_UnknownOperatorReturnsNaN ==
    (/\ EvaluateReturned
     /\ args.operator \notin {<<"+">>, <<"-">>, <<"×">>, <<"÷">>}) =>
        /\ returned.value.type = "number"
        /\ returned.value.num.nan

C17_Witness ==
    /\ EvaluateReturned
    /\ args.firstNum = Fraction(1, 1)
    /\ args.operator = <<"x">>
    /\ args.secondNum = Fraction(2, 1)
    /\ returned.value.type = "number"
    /\ returned.value.num.nan

\* mapKeyToValue has returned.
MapKeyReturned == returned.fn = "mapKeyToValue"

\* The entries of the key table.
KeyTable ==
    [k \in {"0", "1", "2", "3", "4", "5", "6", "7", "8", "9", "+", "-", "%",
            "Backspace"} |-> k]
    @@ [k \in {".", ","} |-> "."]
    @@ [k \in {"*", "x", "X"} |-> "×"]
    @@ [k \in {"/"} |-> "÷"]
    @@ [k \in {"Enter", "="} |-> "="]
    @@ [k \in {"Escape", "c", "C", "Delete"} |-> "C"]

(***************************************************************************)
(* C18: mapKeyToValue is a total lookup: digits map to themselves, "," and *)
(* "." to ".", "*", "x" and "X" to "×", "/" to "÷", "Enter" and "=" to     *)
(* "=", "Escape", "c", "C" and "Delete" to "C", "Backspace" to             *)
(* "Backspace", and every key that is not an entry of the table returns    *)
(* null.                                                                   *)
(***************************************************************************)
C18_MapKeyIsTableLookup ==
    MapKeyReturned =>
        IF args.key \in DOMAIN KeyTable
        THEN returned.value = KeyTable[args.key]
        ELSE returned.value = "null"

(***************************************************************************)
(* Direct calls of convertValue.                                           *)
(***************************************************************************)
ConvertReturned == returned.fn = "convertValue"

\* The number of units of each category.
UnitCount ==
    [length |-> 12, mass |-> 11, temperature |-> 3, volume |-> 12, time |-> 10]

\* The call names a category and two units of it.
UnitsGiven ==
    /\ args.category \in DOMAIN UnitCount
    /\ args.fromIndex \in 0..(UnitCount[args.category] - 1)
    /\ args.toIndex \in 0..(UnitCount[args.category] - 1)

\* The value of the call is NaN or the empty text.
NoValueGiven ==
    \/ (args.value.type = "number" /\ args.value.num.nan)
    \/ (args.value.type = "string" /\ args.value.str = <<>>)

(***************************************************************************)
(* C19: convertValue returns the number 0 whenever the value is NaN or the *)
(* empty text, the category is unknown, or a unit index is outside the     *)
(* category's unit list.                                                   *)
(***************************************************************************)
C19_ConvertReturnsZeroOnBadInput ==
    (ConvertReturned /\ (NoValueGiven \/ ~UnitsGiven)) =>
        /\ returned.value.type = "number"
        /\ ~returned.value.num.nan
        /\ returned.value.num.m = <<>>

C19_Witness ==
    /\ ConvertReturned
    /\ args.value.type = "number"
    /\ args.value.num.nan
    /\ UnitsGiven
    /\ args.category = "length"
    /\ returned.value.type = "number"
    /\ returned.value.num.m = <<>>

(***************************************************************************)
(* C20: conversion identity: for every category, every valid unit index i  *)
(* and every number v, convertValue(v, i, i, category) is v.               *)
(***************************************************************************)
C20_ConvertToSameUnitIsIdentity ==
    (/\ ConvertReturned
     /\ UnitsGiven
     /\ args.fromIndex = args.toIndex
     /\ args.value.type = "number"
     /\ ~args.value.num.nan) =>
        returned.value = args.value

(***************************************************************************)
(* Conversions there and back.                                             *)
(***************************************************************************)
RoundTripReturned == returned.fn = "roundTrip"

\* The tolerance for a value v: a billionth of v, or of 1 when |v| < 1.
Tolerance(v) ==
    IF MagnitudeAtMost(v, Literal(<<1>>, 0)) THEN Literal(<<1>>, 9)
    ELSE FMul(v, Literal(<<1>>, 9))

\* x is v up to the tolerance.
Close(x, v) == ~x.nan /\ ~v.nan /\ MagnitudeAtMost(FSub(x, v), Tolerance(v))

(***************************************************************************)
(* C21: conversion round trip: for every category, every pair of valid     *)
(* unit indices i, j and every number v, converting v from unit i to unit  *)
(* j and the result back from j to i gives v up to floating-point          *)
(* tolerance (a billionth of max(1, |v|)).                                 *)
(***************************************************************************)
C21_RoundTripWithinTolerance ==
    RoundTripReturned =>
        /\ returned.value.type = "number"
        /\ Close(returned.value.num, args.value.num)

\* A round trip through other units whose result is not bit for bit the
\* value it started from.
C21_Witness ==
    /\ RoundTripReturned
    /\ args.fromIndex # args.toIndex
    /\ returned.value # args.value
    /\ returned.there # args.value
    /\ Close(returned.value.num, args.value.num)

(***************************************************************************)
(* Temperatures.                                                           *)
(***************************************************************************)
\* convertValue was called with a number of degrees Celsius.
FromCelsiusGiven ==
    /\ ConvertReturned
    /\ args.category = "temperature"
    /\ args.fromIndex = 0
    /\ args.value.type = "number"
    /\ ~args.value.num.nan

\* The call converted the number v to the unit of index toIndex and
\* returned the number w.
Converted(v, toIndex, w) ==
    (args.value.num = v /\ args.toIndex = toIndex) => returned.value.num = w

(***************************************************************************)
(* C22: temperature conversion is affine through Celsius: c degrees        *)
(* Celsius are c * 9 / 5 + 32 degrees Fahrenheit and c + 273.15 kelvins,   *)
(* so that 0 °C = 32 °F, 100 °C = 212 °F, -40 °C = -40 °F, 0 °C = 273.15 K *)
(* and 100 °C = 373.15 K.                                                  *)
(***************************************************************************)
C22_TemperatureIsAffine ==
    FromCelsiusGiven =>
        /\ returned.value.type = "number"
        /\ args.toIndex = 1 =>
               returned.value.num =
                   FAdd(FDiv(FMul(args.value.num, Literal(<<9>>, 0)), Literal(<<5>>, 0)),
                        Literal(<<3, 2>>, 0))
        /\ args.toIndex = 2 =>
               returned.value.num = FAdd(args.value.num, Literal(<<2, 7, 3, 1, 5>>, 2))
        /\ Converted(DZero, 1, Literal(<<3, 2>>, 0))
        /\ Converted(Literal(<<1, 0, 0>>, 0), 1, Literal(<<2, 1, 2>>, 0))
        /\ Converted(FNeg(Literal(<<4, 0>>, 0)), 1, FNeg(Literal(<<4, 0>>, 0)))
        /\ Converted(DZero, 2, Literal(<<2, 7, 3, 1, 5>>, 2))
        /\ Converted(Literal(<<1, 0, 0>>, 0), 2, Literal(<<3, 7, 3, 1, 5>>, 2))

\* 100 °C were converted to 212 °F.
C22_Witness ==
    /\ FromCelsiusGiven
    /\ args.value.num = Literal(<<1, 0, 0>>, 0)
    /\ args.toIndex = 1
    /\ returned.value.num = Literal(<<2, 1, 2>>, 0)

(***************************************************************************)
(* Factors.                                                                *)
(***************************************************************************)
\* convertValue was called with a number and two units of a category other
\* than temperature.
FactorsGiven ==
    /\ ConvertReturned
    /\ UnitsGiven
    /\ args.category # "temperature"
    /\ args.value.type = "number"
    /\ ~args.value.num.nan

\* The call converted the number v of the category, from the unit of index
\* fromIndex to that of index toIndex, and returned the number w.
ConvertedIn(category, v, fromIndex, toIndex, w) ==
    (/\ args.category = category
     /\ args.value.num = v
     /\ args.fromIndex = fromIndex
     /\ args.toIndex = toIndex) => returned.value.num = w

(***************************************************************************)
(* C23: for every category other than temperature and every pair of valid  *)
(* unit indices, convertValue(value, from, to, category) is                *)
(* value * fromUnit.factor / toUnit.factor, unrounded: 1 m = 1000 mm,      *)
(* 1 km = 1000 m, 60 s = 1 min, 1 h = 3600 s.                              *)
(***************************************************************************)
C23_FactorConversion ==
    FactorsGiven =>
        /\ returned.value.type = "number"
        /\ returned.value.num =
               FDiv(FMul(args.value.num,
                         UNIT_DEFINITIONS[args.category][args.fromIndex + 1].factor),
                    UNIT_DEFINITIONS[args.category][args.toIndex + 1].factor)
        /\ ConvertedIn("length", Literal(<<1>>, 0), 3, 0, Literal(<<1, 0, 0, 0>>, 0))
        /\ ConvertedIn("length", Literal(<<1>>, 0), 6, 3, Literal(<<1, 0, 0, 0>>, 0))
        /\ ConvertedIn("time", Literal(<<6, 0>>, 0), 3, 4, Literal(<<1>>, 0))
        /\ ConvertedIn("time", Literal(<<1>>, 0), 5, 3, Literal(<<3, 6, 0, 0>>, 0))

\* 1 m was converted to 3.280839895013123 ft, a number of more than nine
\* decimals.
C23_Witness ==
    /\ FactorsGiven
    /\ args.category = "length"
    /\ args.value.num = Literal(<<1>>, 0)
    /\ args.fromIndex = 3
    /\ args.toIndex = 8
    /\ returned.value.num =
           Literal(<<3, 2, 8, 0, 8, 3, 9, 8, 9, 5, 0, 1, 3, 1, 2, 3>>, 15)
    /\ returned.value.num # RoundToBillionths(returned.value.num)

(***************************************************************************)
(* Direct calls of limitOutputSize.                                        *)
(***************************************************************************)
LimitReturned == returned.fn = "limitOutputSize"

\* The value of the call is a number other than NaN.
NumberGiven == args.value.type = "number" /\ ~args.value.num.nan

\* The text is toExponential(2) of the value, cut to its first 7 characters.
IsCutExponential(text) ==
    /\ Len(toExponential(args.value.num, 2)) > 8
    /\ text = SubSeq(toExponential(args.value.num, 2), 1, 7)

\* The text is the default form of the value, or its form at one of the
\* precisions 10 to 0 without trailing zeros, or its exponential form.
IsFormOfValue(text) ==
    \/ text = NumberToString(args.value.num)
    \/ \E precision \in 0..10 :
           text = NumberToString(ToDouble(parseFloat(toFixed(args.value.num, precision))))
    \/ text = toExponential(args.value.num, 2)

(***************************************************************************)
(* C24: limitOutputSize never returns a text longer than 8 bytes for a     *)
(* number: the text is the default, a reduced-precision or the exponential *)
(* form and fits in 8 bytes, or it is the exponential form cut to 7        *)
(* characters.                                                             *)
(***************************************************************************)
C24_OutputWithinEightBytes ==
    (LimitReturned /\ NumberGiven) =>
        /\ getByteSize(returned.value) <= 8
        /\ \/ IsFormOfValue(returned.value)
           \/ (IsCutExponential(returned.value) /\ Len(returned.value) <= 7)

\* The hard truncation: -123456789012345 gives "-1.23e+".
C24_Witness ==
    /\ LimitReturned
    /\ args.value = NumberValue(FNeg(Literal(<<1, 2, 3, 4, 5, 6, 7, 8, 9, 0, 1, 2, 3, 4, 5>>, 0)))
    /\ returned.value = <<"-", "1", ".", "2", "3", "e", "+">>

(***************************************************************************)
(* C25: limitOutputSize returns the empty text for NaN, null and           *)
(* undefined.                                                              *)
(***************************************************************************)
C25_EmptyForInvalid ==
    (LimitReturned /\ args.value \in {NumberValue(DNaN), NullValue, UndefinedValue}) =>
        returned.value = <<>>

C25_Witness ==
    /\ LimitReturned
    /\ args.value = NullValue
    /\ returned.value = <<>>

(***************************************************************************)
(* The converter's form.                                                   *)
(***************************************************************************)
\* The last event ran updateConversion or handleCategoryChange.
ConverterEvent ==
    lastCall.event \in {"input", "keyup", "change", "inputUnit", "outputUnit", "category"}

\* The last event ran validateAndLimitInput on the text lastCall.value of
\* the input field.
InputValidated == lastCall.event \in {"input", "keyup", "change"}

\* The text does not parse to a number.
IsNotNumeric(text) == ToDouble(parseFloat(text)).nan

(***************************************************************************)
(* C26: validateAndLimitInput lets transient non-numeric text pass         *)
(* unchanged: the trimmed input "", "-" or "." is returned as it is, and   *)
(* any other text that does not parse to a number is returned unchanged    *)
(* when it is at most 8 bytes long (the input field holds what was         *)
(* returned).                                                              *)
(***************************************************************************)
C26_PartialInputPasses ==
    InputValidated =>
        /\ Trim(lastCall.value) \in {<<>>, <<"-">>, <<".">>} =>
               inputValue = Trim(lastCall.value)
        /\ (IsNotNumeric(Trim(lastCall.value)) /\ getByteSize(Trim(lastCall.value)) <= 8) =>
               inputValue = Trim(lastCall.value)

\* The text "abc" was typed and is still in the field.
C26_Witness ==
    /\ lastCall.event = "input"
    /\ lastCall.value = <<"a", "b", "c">>
    /\ inputValue = <<"a", "b", "c">>

(***************************************************************************)
(* C27: after every event of the converter that runs updateConversion      *)
(* (input, keyup, change, a unit selected) and after every category        *)
(* change, the text of the input field and the text of the output field    *)
(* are at most 8 bytes long.                                               *)
(***************************************************************************)
C27_FieldsWithinEightBytes ==
    ConverterEvent =>
        /\ getByteSize(inputValue) <= 8
        /\ getByteSize(outputValue) <= 8

\* An edit left 16 bytes in the input field, and both fields have been cut
\* to the budget.
C27_Witness ==
    /\ lastCall.event = "input"
    /\ getByteSize(lastCall.value) > 8
    /\ inputValue # <<>>
    /\ outputValue # <<>>
    /\ getByteSize(inputValue) <= 8
    /\ getByteSize(outputValue) <= 8

\* The last event applied an operator: a click on an operator button, or a
\* key mapped to one pressed outside a form field.
OperatorApplied ==
    /\ lastCall.event \in {"click", "keydown"}
    /\ lastCall.value \in Operators

(***************************************************************************)
(* C28: in every reachable state expression is the empty text or has the   *)
(* form "<firstOperand> <operator>": exactly two parts separated by a      *)
(* space, the second one of + - × ÷, the first the currentInput displayed  *)
(* when the operator was applied (an event that applies no operator leaves *)
(* a pending expression as it was).                                        *)
(***************************************************************************)
C28_ExpressionForm ==
    expression # <<>> =>
        /\ Len(Split(expression, " ")) = 2
        /\ Split(expression, " ")[2] \in {<<op>> : op \in Operators}
        /\ IF OperatorApplied
           THEN Split(expression, " ")[1] = currentInput
           ELSE expression = prev.expression

\* An operator was applied on a pending expression with its second operand
\* typed: the expression holds the result displayed, not the operand.
C28_Witness ==
    /\ OperatorApplied
    /\ prev.expression # <<>>
    /\ ~prev.shouldResetInput
    /\ currentInput # prev.currentInput
    /\ expression = currentInput \o <<" ", lastCall.value>>

\* The last event applied an operator while shouldResetInput was true.
OperatorOnReset == OperatorApplied /\ prev.shouldResetInput

(***************************************************************************)
(* C29: inputOperator(op) invoked while shouldResetInput is true (after    *)
(* another operator or after equals) evaluates nothing: currentInput is    *)
(* unchanged and expression becomes "<currentInput> <op>" (a second        *)
(* consecutive operator replaces the pending one; an operator after equals *)
(* builds the expression on the result displayed).                         *)
(***************************************************************************)
C29_OperatorOnResetReplaces ==
    OperatorOnReset =>
        /\ currentInput = prev.currentInput
        /\ expression = prev.currentInput \o <<" ", lastCall.value>>
        /\ shouldResetInput

\* A second consecutive operator, different from the first one, on a first
\* operand for which evaluating "a op a" would have changed the display.
C29_Witness ==
    /\ OperatorOnReset
    /\ prev.expression = <<"3", " ", "+">>
    /\ prev.currentInput = <<"3">>
    /\ lastCall.value = "×"
    /\ currentInput = <<"3">>
    /\ expression = <<"3", " ", "×">>

\* equals is pressed in the PendingOperator state: an expression is pending
\* and shouldResetInput is true.
EqualsOnPendingOperator ==
    /\ Dispatched("=")
    /\ prev.expression # <<>>
    /\ prev.shouldResetInput

\* The first operand of the pending expression, and the number displayed
\* when equals was pressed.
FirstOperand == parseFloat(PendingOperand(prev.expression))

DisplayedOperand == parseFloat(prev.currentInput)

\* The pending operator is a division and the operand given is zero.
DividesByZero(b) == PendingOperator(prev.expression) = "÷" /\ IsZero(b)

(***************************************************************************)
(* C30 (as stated): equals pressed in the PendingOperator state (expression*)
(* "a op" set, shouldResetInput true, no second operand typed) uses the    *)
(* first operand as the second one: the result is a op a, not a and not an *)
(* error.                                                                  *)
(***************************************************************************)
C30_EqualsRepeatsFirstOperand ==
    EqualsOnPendingOperator =>
        /\ currentInput # ErrorText
        /\ currentInput # PendingOperand(prev.expression)
        /\ ~DividesByZero(FirstOperand) =>
               currentInput = Canonical9(Arith(FirstOperand, PendingOperator(prev.expression),
                                               FirstOperand))

(***************************************************************************)
(* C30 (amended): equals pressed in the PendingOperator state takes the    *)
(* number displayed as the second operand, which is the first operand a    *)
(* unless ±, % or Backspace has changed the display since the operator,    *)
(* and shows the result as any evaluation does: "Error" for a division by  *)
(* zero, else the fitted text of a op b rounded to 9 decimals (3 + = gives *)
(* "6", 0 + = gives "0", 0 ÷ = gives "Error"); expression is emptied and   *)
(* shouldResetInput stays true.                                            *)
(***************************************************************************)
C30_EqualsUsesDisplayedOperand ==
    EqualsOnPendingOperator =>
        /\ IF DividesByZero(DisplayedOperand)
           THEN currentInput = ErrorText
           ELSE currentInput =
                    Fitted(Canonical9(Arith(FirstOperand, PendingOperator(prev.expression),
                                            DisplayedOperand)))
        /\ prev.currentInput = PendingOperand(prev.expression) =>
               DisplayedOperand = FirstOperand
        /\ expression = <<>>
        /\ shouldResetInput

\* 3 + = shows "6".
C30_Witness ==
    /\ Dispatched("=")
    /\ prev = [currentInput |-> <<"3">>, expression |-> <<"3", " ", "+">>,
               shouldResetInput |-> TRUE]
    /\ currentInput = <<"6">>

\* let newInput of inputNumber(num) in the session s, where it is assigned.
NewInput(s, num) ==
    IF s.shouldResetInput \/ (s.currentInput = <<"0">> /\ num # ".") THEN <<num>>
    ELSE s.currentInput \o <<num>>

\* inputNumber(num) returned at "Prevent multiple decimals".
DuplicateDecimal(s, num) ==
    /\ ~s.shouldResetInput
    /\ num = "."
    /\ Includes(s.currentInput, ".")

\* The last event dispatched a digit or the decimal point, and inputNumber
\* rejected it because newInput did not fit the display.
RejectedForFit ==
    /\ lastCall.event \in {"click", "keydown"}
    /\ lastCall.value \in NumberTokens
    /\ ~DuplicateDecimal(prev, lastCall.value)
    /\ ~canFitInDisplay(NewInput(prev, lastCall.value))

(***************************************************************************)
(* C31: when inputNumber rejects a token because the resulting text would  *)
(* not fit the display, the session is left unchanged: currentInput,       *)
(* expression and shouldResetInput keep their values, also when            *)
(* shouldResetInput was true.                                              *)
(***************************************************************************)
C31_RejectionLeavesSession ==
    RejectedForFit =>
        /\ currentInput = prev.currentInput
        /\ expression = prev.expression
        /\ shouldResetInput = prev.shouldResetInput

(***************************************************************************)
(* C32: currentInput is never the empty text, in any state reached by      *)
(* digit, decimal, operator, equals, clear, sign-toggle, percentage and    *)
(* backspace events (for example after digit, sign toggle, backspace, sign *)
(* toggle).                                                                *)
(***************************************************************************)
C32_CurrentInputNeverEmpty == currentInput # <<>>

\* The last event ran toggleSign, percentage or backspace.
UnaryEdit ==
    /\ lastCall.event \in {"click", "keydown"}
    /\ lastCall.value \in {"±", "%", "Backspace"}

(***************************************************************************)
(* C33: toggleSign, percentage and backspace change only currentInput:     *)
(* expression and shouldResetInput are left as they were; so a display     *)
(* edited after equals or an operator still has shouldResetInput true, and *)
(* the next digit replaces it instead of extending it.                     *)
(***************************************************************************)
C33_UnaryEditsKeepFrame ==
    /\ UnaryEdit =>
           /\ expression = prev.expression
           /\ shouldResetInput = prev.shouldResetInput
    /\ (lastCall.value \in Digits /\ prev.shouldResetInput) =>
           currentInput = <<lastCall.value>>

\* Backspace after an operator: the display has lost its last digit, the
\* pending expression and the reset flag are as before.
C33_Witness ==
    /\ Dispatched("Backspace")
    /\ prev = [currentInput |-> <<"1", "3">>, expression |-> <<"1", "3", " ", "+">>,
               shouldResetInput |-> TRUE]
    /\ currentInput = <<"1">>
    /\ expression = <<"1", "3", " ", "+">>
    /\ shouldResetInput

\* The transition of a token: the click on its button, or backspace() for
\* the token Backspace, which only the keyboard offers.
TokenTransition(s, token) ==
    IF token = "Backspace" THEN backspace(s) ELSE handleButtonClick(s, token)

(***************************************************************************)
(* C34: a keydown event whose target is an INPUT, TEXTAREA or SELECT       *)
(* element, or whose key is not mapped (is no entry of the key table),     *)
(* leaves currentInput, expression and shouldResetInput unchanged; every   *)
(* other keydown applies the transition of clicking the button of the      *)
(* token its key maps to.                                                  *)
(***************************************************************************)
C34_KeydownIsClickOfToken ==
    lastCall.event = "keydown" =>
        Session = IF \/ lastCall.tagName \in {"INPUT", "TEXTAREA", "SELECT"}
                     \/ lastCall.key \notin DOMAIN KeyTable
                  THEN prev
                  ELSE TokenTransition(prev, KeyTable[lastCall.key])

\* validateAndLimitInput has been applied to its own result: the second
\* application of an input event has returned.
ValidatedTwice == returned.fn = "validateAndLimitInput" /\ events = 2

(***************************************************************************)
(* C35: validateAndLimitInput is idempotent: applied to its own result it  *)
(* returns the same text, for every input text, so the second application  *)
(* of an input event does not change the number in the field.              *)
(***************************************************************************)
C35_ValidateIsIdempotent ==
    ValidatedTwice =>
        /\ returned.value = returned.text
        /\ ToDouble(parseFloat(returned.value)) = ToDouble(parseFloat(returned.text))

\* The index is a position of the unit list of the current category.
IsUnitOfCategory(index) == HasUnit(UNIT_DEFINITIONS[currentCategory], index)

(***************************************************************************)
(* C36: after any sequence of category changes and unit selections the     *)
(* selected input and output unit indexes are positions of the unit list   *)
(* of the current category; a category change sets them to 0 and 1 and     *)
(* empties the input and the output text.                                  *)
(***************************************************************************)
C36_UnitsOfCurrentCategory ==
    /\ IsUnitOfCategory(inputUnit)
    /\ IsUnitOfCategory(outputUnit)
    /\ lastCall.event = "category" =>
           /\ currentCategory = lastCall.value
           /\ inputUnit = 0
           /\ outputUnit = 1
           /\ inputValue = <<>>
           /\ outputValue = <<>>

\* The category has been changed to temperature, whose list is shorter than
\* the largest index selected in the model.
C36_Witness ==
    /\ lastCall.event = "category"
    /\ lastCall.value = "temperature"
    /\ events = MaxEdits
    /\ ~HasUnit(UNIT_DEFINITIONS["temperature"], MaxUnit)
    /\ currentCategory = "temperature"
    /\ inputUnit = 0
    /\ outputUnit = 1

\* The theme of the system colour scheme.
SystemTheme == SchemeTheme(systemDark)

(***************************************************************************)
(* C37: after initThemeToggle has run, a change of the system colour       *)
(* scheme switches the theme to that of the system whenever the user has   *)
(* never clicked the theme toggle.                                         *)
(***************************************************************************)
C37_SchemeChangeFollowedUntilToggled ==
    (lastCall.event = "schemeChange" /\ ~toggled) => currentTheme = SystemTheme

\* Only the clicked tab item is active, and only the panel it targets.
ClickedTabAlone ==
    /\ activeItems = {lastCall.value}
    /\ Cardinality(activePanels) <= 1
    /\ \A j \in 1..Len(tabPanels) :
           j \in activePanels <=> tabPanels[j] = tabItems[lastCall.value]

====
